---- MODULE Spec2Model ----
(***************************************************************************)
(* ScenarioTimeline: the scenario runner of src/sim/scenarioRunner.js      *)
(* (createScenarioRunner), together with the browser facilities it uses:   *)
(* performance.now() and requestAnimationFrame / cancelAnimationFrame.     *)
(*                                                                         *)
(* Times are integers.  Wall-clock readings and the runner's timestamps    *)
(* are milliseconds, as in the source.  The source's elapsedSeconds is     *)
(* (nowMs - startTimestamp) / 1000; the model keeps the numerator (the     *)
(* field elapsed is in milliseconds) and compares it with event times and  *)
(* durations, which are seconds, after multiplying those by MsPerSecond.   *)
(***************************************************************************)
EXTENDS Integers, Sequences, FiniteSets, TLC

\* ------------------------------------------------------------------ bounds

\* The wall clock stops advancing at MaxNowSec seconds.
MaxNowSec == 5
\* At most MaxStale scheduled frame callbacks that rafId no longer names.
MaxStale == 1
\* An engine run makes at most MaxCalls calls of the API and is given at most
\* MaxTicks frames.
MaxCalls == 2
MaxTicks == 2
\* A flight along the trail is given at most MaxTrailTicks frames.
MaxTrailTicks == 400
\* A manoeuvre is given at most MaxTurnTicks frames, and the controls and
\* targets change at most every JumpEvery frames.
MaxTurnTicks == 100
JumpEvery == 25
\* A climb or descent is given at most MaxDiveTicks frames.
MaxDiveTicks == 700
\* A scenario played to its end runs for at most MaxPlaySec seconds.
MaxPlaySec == 240

\* Wall-clock time that passes between two calls or frames (ms).
WaitSteps == {1000}
\* Time between a frame's timestamp and performance.now() read inside it (ms).
Lags == {0, 1000}

\* ------------------------------------------------------- program constants

MsPerSecond == 1000
MaxNow == MaxNowSec * MsPerSecond
DefaultDurationSec == 180
MinDurationSec == 90
DurationPadSec == 30

\* ------------------------------------------------------------------ values

\* An optional value (a field that may be undefined) is a sequence of
\* length 0 (absent) or 1 (present).
None == << >>
Some(x) == << x >>

\* The scenario argument null / the initial activeScenario.
NullScenario == [isNull |-> TRUE]

Evt(t, type, id) == [t |-> t, type |-> type, id |-> id]

KnownTypes == {"ATC", "ADD_TFR", "REMOVE_TFR", "ADD_TRAFFIC", "REMOVE_TRAFFIC", "NOTE"}

\* Scenario documents the runner is loaded with.
ScenarioA ==
    [isNull |-> FALSE, durationSec |-> Some(3),
     events |-> Some(<< Evt(2, "ATC", 1), Evt(1, "ADD_TFR", 2),
                        Evt(2, "REMOVE_TFR", 3), Evt(4, "ADD_TRAFFIC", 4) >>)]
ScenarioB ==
    [isNull |-> FALSE, durationSec |-> None,
     events |-> Some(<< Evt(1, "BOGUS", 1), Evt(0, "NOTE", 2),
                        Evt(1, "REMOVE_TRAFFIC", 3) >>)]
ScenarioC ==
    [isNull |-> FALSE, durationSec |-> Some(0), events |-> Some(<< >>)]
ScenarioD ==
    [isNull |-> FALSE, durationSec |-> None, events |-> None]
ScenarioE ==
    [isNull |-> FALSE, durationSec |-> None,
     events |-> Some(<< Evt(60, "ATC", 1), Evt(200, "NOTE", 2) >>)]

Scenarios == {ScenarioA, ScenarioB, ScenarioC, ScenarioD, ScenarioE, NullScenario}

MaxEvents == 4
EventIds == 1..MaxEvents

AllHooks ==
    {"onLoad", "onStart", "onPause", "onReset", "onTick", "onComplete",
     "onAtc", "onAddTfr", "onRemoveTfr", "onAddTraffic", "onRemoveTraffic", "onNote"}

\* The callbacks object handed to createScenarioRunner.
HookSets == {AllHooks, AllHooks \ {"onNote"}}

Max(a, b) == IF a >= b THEN a ELSE b

VARIABLES
    runner,      \* the closure state of createScenarioRunner
    frames,      \* scheduled frame callbacks: [cur, stale]
    calls,       \* hook invocations made by the last operation, in order
    error,       \* the last operation raised an exception
    callbacks,   \* names of the hooks supplied
    now,         \* performance.now()
    op,          \* the last operation
    dispatched,  \* per event id: hook invocations since the last load/reset
    runMs,       \* wall-clock time spent running since the last load/reset
    resumed,     \* a start() has resumed a clock frozen while time passed
    completed,   \* a tick has invoked onComplete since the last load/reset
    fresh,       \* a new runner loaded with the same scenario, driven alike
    sim,         \* the closure state of createSim
    simFrames,   \* the engine's scheduled frame callbacks: [cur, stale]
    emitted,     \* the objects the last operation handed to onUpdate
    arg,         \* the argument of the last engine operation
    ticks,       \* frames the engine has been given
    apiCalls,    \* calls of the engine's API made
    simState     \* the shared sim state applyIntentToSim is handed, if any

vars == << runner, frames, calls, error, callbacks, now, op, dispatched, runMs,
           resumed, completed, fresh, sim, simFrames, emitted, arg, ticks,
           apiCalls, simState >>

\* ------------------------------------------------------------ the runner

\* The closure state right after createScenarioRunner (lines 14-24).
\* rafId is TRUE when it holds a frame id (truthy), FALSE when null.
NewRunner ==
    [activeScenario |-> NullScenario,
     events |-> << >>,
     elapsed |-> 0,
     duration |-> DefaultDurationSec,
     currentEventIndex |-> 0,
     isRunning |-> FALSE,
     startTimestamp |-> 0,
     pauseOffsetMs |-> 0,
     rafId |-> FALSE,
     nextEventPointer |-> 0]

\* No frame callback is scheduled.  cur: the callback rafId names is still
\* scheduled; stale: scheduled callbacks whose id rafId no longer holds.
NoFrames == [cur |-> FALSE, stale |-> 0]

\* An operation runs on a step record: the runner, the frame callbacks,
\* the hooks invoked so far and whether an exception is propagating.
Step(r, f) == [r |-> r, f |-> f, c |-> << >>, threw |-> FALSE]

Call(hook, id, a, b) == [hook |-> hook, id |-> id, a |-> a, b |-> b]

\* callbacks.hook?.(...): invoked when supplied, skipped otherwise.
SafeCall(s, hook, id, a, b) ==
    IF hook \in callbacks THEN [s EXCEPT !.c = Append(@, Call(hook, id, a, b))] ELSE s

\* evt.t || 0 (event times are numbers, so this is evt.t).
TimeOf(evt) == evt.t

RECURSIVE MaxEventTime(_)
\* events.reduce((acc, evt) => Math.max(acc, evt.t || 0), 0)
MaxEventTime(evts) ==
    IF evts = << >> THEN 0
    ELSE Max(MaxEventTime(SubSeq(evts, 1, Len(evts) - 1)), TimeOf(evts[Len(evts)]))

\* Variant: scenario.durationSec || computed, so a duration of 0 is recomputed.
computeDurationSeconds_Falsy(scenario) ==
    IF scenario.isNull THEN DefaultDurationSec
    ELSE IF scenario.durationSec # None /\ scenario.durationSec # Some(0)
         THEN scenario.durationSec[1]
    ELSE LET maxEventTime ==
                 IF scenario.events = None THEN 0 ELSE MaxEventTime(scenario.events[1])
         IN  Max(MinDurationSec, maxEventTime + DurationPadSec)

computeDurationSeconds(scenario) ==
    IF scenario.isNull THEN DefaultDurationSec
    ELSE IF scenario.durationSec # None THEN scenario.durationSec[1]
    ELSE LET maxEventTime ==
                 IF scenario.events = None THEN 0 ELSE MaxEventTime(scenario.events[1])
         IN  Max(MinDurationSec, maxEventTime + DurationPadSec)

\* activeScenario.value?.events || []
ScenarioEvents(scenario) ==
    IF scenario.isNull THEN << >>
    ELSE IF scenario.events = None THEN << >>
    ELSE scenario.events[1]

\* Variant: an unstable sort that puts e in front of elements of equal t.
InsertSorted_Unstable(sorted, e) ==
    LET after == {i \in 1..Len(sorted) : TimeOf(sorted[i]) - TimeOf(e) >= 0}
        pos == IF after = {} THEN Len(sorted) + 1
               ELSE CHOOSE i \in after : \A j \in after : i <= j
    IN  SubSeq(sorted, 1, pos - 1) \o << e >> \o SubSeq(sorted, pos, Len(sorted))

\* Insert e into an ascending sequence behind every element that does not
\* compare greater (Array.prototype.sort is stable).
InsertSorted(sorted, e) ==
    LET after == {i \in 1..Len(sorted) : TimeOf(sorted[i]) - TimeOf(e) > 0}
        pos == IF after = {} THEN Len(sorted) + 1
               ELSE CHOOSE i \in after : \A j \in after : i <= j
    IN  SubSeq(sorted, 1, pos - 1) \o << e >> \o SubSeq(sorted, pos, Len(sorted))

RECURSIVE SortByTime(_)
\* [...events].sort((a, b) => (a.t || 0) - (b.t || 0))
SortByTime(evts) ==
    IF evts = << >> THEN << >>
    ELSE InsertSorted(SortByTime(SubSeq(evts, 1, Len(evts) - 1)), evts[Len(evts)])

\* Variant: the events are taken in the order written, without sorting.
resetEventStatuses_Unsorted(r) ==
    LET sortedEvents == ScenarioEvents(r.activeScenario)
        evs == [k \in 1..Len(sortedEvents) |->
                   [t |-> sortedEvents[k].t, type |-> sortedEvents[k].type,
                    id |-> sortedEvents[k].id, index |-> k - 1, status |-> "pending"]]
    IN  [r EXCEPT !.events = evs,
                  !.currentEventIndex = IF Len(evs) # 0 THEN 0 ELSE -1,
                  !.nextEventPointer = 0]

resetEventStatuses(r) ==
    LET sortedEvents == SortByTime(ScenarioEvents(r.activeScenario))
        evs == [k \in 1..Len(sortedEvents) |->
                   [t |-> sortedEvents[k].t, type |-> sortedEvents[k].type,
                    id |-> sortedEvents[k].id, index |-> k - 1, status |-> "pending"]]
    IN  [r EXCEPT !.events = evs,
                  !.currentEventIndex = IF Len(evs) # 0 THEN 0 ELSE -1,
                  !.nextEventPointer = 0]

loadScenario(s, scenario) ==
    LET r1 == resetEventStatuses(
                  [s.r EXCEPT !.activeScenario = scenario,
                              !.duration = computeDurationSeconds(scenario)])
        r2 == [r1 EXCEPT !.elapsed = 0, !.pauseOffsetMs = 0,
                         !.startTimestamp = 0, !.isRunning = FALSE]
    IN  SafeCall([s EXCEPT !.r = r2], "onLoad", 0, r2.duration, 0)

\* Variant: the findIndex result is stored as it is, -1 when none is pending.
updateCurrentEventIndex_Raw(r) ==
    LET pend == {k \in 1..Len(r.events) : r.events[k].status = "pending"}
        idx == IF pend = {} THEN -1 ELSE (CHOOSE k \in pend : \A j \in pend : k <= j) - 1
    IN  [r EXCEPT !.currentEventIndex = idx]

updateCurrentEventIndex(r) ==
    LET pend == {k \in 1..Len(r.events) : r.events[k].status = "pending"}
        idx == IF pend = {} THEN -1 ELSE (CHOOSE k \in pend : \A j \in pend : k <= j) - 1
    IN  [r EXCEPT !.currentEventIndex = IF idx = -1 THEN Len(r.events) ELSE idx]

HookOf(type) ==
    CASE type = "ATC" -> "onAtc"
      [] type = "ADD_TFR" -> "onAddTfr"
      [] type = "REMOVE_TFR" -> "onRemoveTfr"
      [] type = "ADD_TRAFFIC" -> "onAddTraffic"
      [] type = "REMOVE_TRAFFIC" -> "onRemoveTraffic"
      [] type = "NOTE" -> "onNote"

\* Variant: the default case throws instead of logging.
triggerEvent_Throws(s, event) ==
    IF event.type \in KnownTypes
    THEN SafeCall(s, HookOf(event.type), event.id, 0, 0)
    ELSE [s EXCEPT !.threw = TRUE]

triggerEvent(s, event) ==
    IF event.type \in KnownTypes
    THEN SafeCall(s, HookOf(event.type), event.id, 0, 0)
    ELSE s   \* default: console.debug only

\* Variant: processEvents dispatches at most one event in a tick.
processLoop_OnePerTick(s, elapsedMs) ==
    IF s.r.nextEventPointer >= Len(s.r.events) THEN s
    ELSE LET k == s.r.nextEventPointer + 1
             event == s.r.events[k]
         IN  IF TimeOf(event) * MsPerSecond > elapsedMs THEN s
             ELSE LET s1 == triggerEvent(s, event)
                  IN  IF s1.threw THEN s1
                      ELSE [s1 EXCEPT !.r.events[k].status = "completed",
                                      !.r.nextEventPointer = @ + 1]

RECURSIVE processLoop(_, _)
\* The while loop of processEvents; elapsedMs is elapsedSeconds * 1000.
processLoop(s, elapsedMs) ==
    IF s.r.nextEventPointer >= Len(s.r.events) THEN s
    ELSE LET k == s.r.nextEventPointer + 1
             event == s.r.events[k]
         IN  IF TimeOf(event) * MsPerSecond > elapsedMs THEN s
             ELSE LET s1 == triggerEvent(s, event)
                  IN  IF s1.threw THEN s1
                      ELSE processLoop(
                               [s1 EXCEPT !.r.events[k].status = "completed",
                                          !.r.nextEventPointer = @ + 1],
                               elapsedMs)

processEvents(s, elapsedMs) ==
    IF Len(s.r.events) = 0 THEN s
    ELSE LET s1 == processLoop(s, elapsedMs)
         IN  IF s1.threw THEN s1 ELSE [s1 EXCEPT !.r = updateCurrentEventIndex(@)]

\* rafId = requestAnimationFrame(tick): a new callback is scheduled and
\* rafId names it; a callback rafId named before stays scheduled.
requestAnimationFrame(s) ==
    [s EXCEPT !.f = [cur |-> TRUE, stale |-> IF @.cur THEN @.stale + 1 ELSE @.stale],
              !.r.rafId = TRUE]

\* cancelAnimationFrame(rafId): only the callback rafId names is removed.
cancelAnimationFrame(s) == [s EXCEPT !.f.cur = FALSE]

\* perfNow is what performance.now() returns during the call.
pause(s, perfNow) ==
    IF ~s.r.isRunning THEN s
    ELSE LET s1 == [s EXCEPT !.r.isRunning = FALSE,
                             !.r.pauseOffsetMs = perfNow - s.r.startTimestamp]
             s2 == IF s1.r.rafId
                   THEN [cancelAnimationFrame(s1) EXCEPT !.r.rafId = FALSE]
                   ELSE s1
         IN  SafeCall(s2, "onPause", 0, 0, 0)

\* Variant: start() also restores the event statuses.
start_Rewinds(s, perfNow) ==
    IF s.r.activeScenario.isNull THEN s
    ELSE IF s.r.isRunning THEN s
    ELSE LET s1 == [s EXCEPT !.r = resetEventStatuses(
                                       [@ EXCEPT !.startTimestamp = perfNow - s.r.pauseOffsetMs,
                                                 !.isRunning = TRUE])]
         IN  SafeCall(requestAnimationFrame(s1), "onStart", 0, 0, 0)

\* Variant: start() restarts the clock at performance.now().
start_IgnoresOffset(s, perfNow) ==
    IF s.r.activeScenario.isNull THEN s
    ELSE IF s.r.isRunning THEN s
    ELSE LET s1 == [s EXCEPT !.r.startTimestamp = perfNow,
                             !.r.isRunning = TRUE]
         IN  SafeCall(requestAnimationFrame(s1), "onStart", 0, 0, 0)

\* Variant: start() without the isRunning guard.
start_Unguarded(s, perfNow) ==
    IF s.r.activeScenario.isNull THEN s
    ELSE LET s1 == [s EXCEPT !.r.startTimestamp = perfNow - s.r.pauseOffsetMs,
                             !.r.isRunning = TRUE]
         IN  SafeCall(requestAnimationFrame(s1), "onStart", 0, 0, 0)

start(s, perfNow) ==
    IF s.r.activeScenario.isNull THEN s
    ELSE IF s.r.isRunning THEN s
    ELSE LET s1 == [s EXCEPT !.r.startTimestamp = perfNow - s.r.pauseOffsetMs,
                             !.r.isRunning = TRUE]
         IN  SafeCall(requestAnimationFrame(s1), "onStart", 0, 0, 0)

\* Variant: reset() keeps the pause offset.
reset_KeepsOffset(s, perfNow) ==
    LET s1 == pause(s, perfNow)
        r1 == [s1.r EXCEPT !.elapsed = 0, !.startTimestamp = 0]
    IN  SafeCall([s1 EXCEPT !.r = resetEventStatuses(r1)], "onReset", 0, 0, 0)

reset(s, perfNow) ==
    LET s1 == pause(s, perfNow)
        r1 == [s1.r EXCEPT !.pauseOffsetMs = 0, !.elapsed = 0, !.startTimestamp = 0]
    IN  SafeCall([s1 EXCEPT !.r = resetEventStatuses(r1)], "onReset", 0, 0, 0)

\* Variant: tick() invokes onComplete before it pauses.
tick_CompletesFirst(s, ts, perfNow) ==
    IF ~s.r.isRunning THEN s
    ELSE LET elapsedMs == ts - s.r.startTimestamp
             s1 == [s EXCEPT !.r.elapsed = elapsedMs]
             s2 == SafeCall(s1, "onTick", 0, elapsedMs, s1.r.duration)
             s3 == processEvents(s2, elapsedMs)
         IN  IF s3.threw THEN s3
             ELSE IF elapsedMs >= s3.r.duration * MsPerSecond
             THEN pause(SafeCall(s3, "onComplete", 0, 0, 0), perfNow)
             ELSE requestAnimationFrame(s3)

\* tick(now): ts is the frame timestamp passed by requestAnimationFrame,
\* perfNow the performance.now() reading inside the callback.
tick(s, ts, perfNow) ==
    IF ~s.r.isRunning THEN s
    ELSE LET elapsedMs == ts - s.r.startTimestamp
             s1 == [s EXCEPT !.r.elapsed = elapsedMs]
             s2 == SafeCall(s1, "onTick", 0, elapsedMs, s1.r.duration)
             s3 == processEvents(s2, elapsedMs)
         IN  IF s3.threw THEN s3
             ELSE IF elapsedMs >= s3.r.duration * MsPerSecond
             THEN SafeCall(pause(s3, perfNow), "onComplete", 0, 0, 0)
             ELSE requestAnimationFrame(s3)

\* ------------------------------------------------------------ the engine
\*
\* AircraftDynamicsEngine: createSim.  The source computes in doubles; the
\* model computes in integers of a finer unit:
\*   lengths (x, y, z, origin, distances)   millimetres
\*   speeds (speedMps, vertical speeds)      millimetres per second
\*   angles (heading, bank, pitch)           hundredths of a degree
\*   radians, sines, cosines, ratios         ten-thousandths
\*   control inputs (-1 .. 1)                thousandths
\*   time (timestamps, deltaTime)            milliseconds
\*   targets: knots, hundredths of a degree, feet, feet per minute
\* A quotient is rounded to the nearest integer.

Abs(a) == IF a < 0 THEN -a ELSE a
Sign(a) == IF a > 0 THEN 1 ELSE IF a < 0 THEN -1 ELSE 0
Min(a, b) == IF a <= b THEN a ELSE b
\* Math.max(lo, Math.min(hi, v))
Clamp(lo, hi, v) == Max(lo, Min(hi, v))
\* a / b to the nearest integer (b > 0).
Rnd(a, b) == IF a >= 0 THEN (2 * a + b) \div (2 * b) ELSE -((2 * (-a) + b) \div (2 * b))
\* The remainder of JavaScript's %: it has the sign of the dividend.
Rem(a, m) == IF a >= 0 THEN a % m ELSE -((-a) % m)

DEG_TO_RAD == 17453        \* radians per degree, in millionths
KT_TO_MPS == 514444        \* metres per second per knot, in millionths
FT_TO_M == 3048            \* metres per foot, in ten-thousandths
FPM_PER_MPS == 19685       \* 1 / FPM_TO_MPS = 196.85, in hundredths

KtToMps(kt) == Rnd(kt * KT_TO_MPS, 1000)
FtToM(ft) == Rnd(ft * FT_TO_M, 10)
FpmToMps(fpm) == Rnd(fpm * 100000, FPM_PER_MPS)
toRadians(deg) == Rnd(deg * DEG_TO_RAD, 10000)
toDegrees(rad) == Rnd(rad * 10000, DEG_TO_RAD)

RECURSIVE SqrtBetween(_, _, _)
SqrtBetween(n, lo, hi) ==
    IF lo >= hi THEN lo
    ELSE LET mid == (lo + hi + 1) \div 2
         IN  IF mid * mid <= n THEN SqrtBetween(n, mid, hi) ELSE SqrtBetween(n, lo, mid - 1)
\* Math.sqrt, to the unit below (n < 2^30).
sqrt(n) == SqrtBetween(n, 0, 32767)

\* Math.sin for 0 .. 180 degrees: 4d(180 - d) / (40500 - d(180 - d)).
SinHalfTurn(deg) ==
    LET p == Rnd(deg * (18000 - deg), 1000)
    IN  Rnd(p * 4000, Rnd(405000 - p, 10))
\* Math.sin near 0: r - r^3 / 6.
SinSmall(deg) ==
    LET r == toRadians(Abs(deg))
    IN  Sign(deg) * (r - Rnd(Rnd(r * r, 10000) * r, 60000))
\* Math.sin(toRadians(deg))
sin(deg) ==
    LET a == deg % 36000
    IN  IF Abs(deg) <= 1500 THEN SinSmall(deg)
        ELSE IF a <= 18000 THEN SinHalfTurn(a) ELSE -SinHalfTurn(a - 18000)
\* Math.cos(toRadians(deg))
cos(deg) == sin(deg + 9000)

\* Math.asin, in radians: r + r^3 / 6 + 3 r^5 / 40.  The engine clamps the
\* angle to maxPitchAngleDeg, below which the three terms are exact to the
\* unit; above, they still exceed it.
asin(ratio) ==
    LET r == Abs(ratio)
        r2 == Rnd(r * r, 10000)
        r3 == Rnd(r2 * r, 10000)
        r5 == Rnd(r2 * r3, 10000)
    IN  Sign(ratio) * (r + Rnd(r3, 6) + Rnd(3 * r5, 40))

\* Math.atan, in radians: v / (1 + 0.28 v^2), for |v| <= 1.
atan(v) == Rnd(v * 10000, 10000 + Rnd(28 * Rnd(v * v, 10000), 100))

\* Simulation parameters (lines 205-220, 250-253).
minSpeedKt == 80
maxSpeedKt == 250
minSpeedMps == KtToMps(minSpeedKt)
maxSpeedMps == KtToMps(maxSpeedKt)
speedAccelMps2 == 2000
maxTurnRateDegps == 300
bankAngleSmoothingRate == 1500
maxBankAngleDeg == 3000
maxClimbRateMps == 30480
maxDescentRateMps == 25400
maxPitchAngleDeg == 1500
pitchAngleSmoothingRate == 300
g == 9810
SPEED_TOLERANCE_MPS == 500
HEADING_TOLERANCE_DEG == 100
ALTITUDE_TOLERANCE_M == 10000
maxTrailDistanceM == 5000000
updateIntervalMs == 50
\* deltaTime > 0.1 is skipped.
maxDeltaTimeMs == 100
\* The turn rate and the speed below which the bank (pitch) stays level.
minTurnRateDegps == 10
minManoeuvreSpeedMps == 10000
\* The pitch input below which the target pitch stays level.
pitchDeadband == 100
\* z is kept above initialAltitudeMeters - 1000.
floorDepthM == 1000000
\* Limits of the setters.
minTargetSpeedKt == 40
maxTargetSpeedKt == 400
minTargetAltitudeFt == -1000
maxTargetAltitudeFt == 60000
maxVerticalSpeedLimitFpm == 4000

\* A number handed to normalizeHeading: cd hundredths of a degree, plus
\* eps times an amount smaller than half the spacing of the doubles next
\* to 360 (about 2.8e-14).  -1e-15 is [cd |-> 0, eps |-> -1].
Exact(cd) == [cd |-> cd, eps |-> 0]
JustBelow(cd) == [cd |-> cd, eps |-> -1]

\* normalizeHeading (lines 195-198).  heading % 360 is exact; when it is
\* negative, 360 is added and the sum rounded to a double: an amount below
\* half the spacing at 360 is lost, and the result is 360.
normalizeHeading(heading) ==
    LET rem == Rem(heading.cd, 36000)
    IN  IF rem < 0 \/ (rem = 0 /\ heading.eps < 0) THEN rem + 36000 ELSE rem

\* normalizeHeadingDiff (lines 199-203).
normalizeHeadingDiff(diff) ==
    IF diff > 18000 THEN diff - 36000
    ELSE IF diff < -18000 THEN diff + 36000
    ELSE diff

\* The options createSim is called with (lines 179-185).
SimOptions(heading, altitude, origin, speedKt) ==
    [initialHeadingDeg |-> heading, initialAltitudeMeters |-> altitude,
     originAltitudeMeters |-> origin, initialSpeedKt |-> speedKt]

\* The closure state right after createSim (lines 222-254).
\* animationFrameId is TRUE when it holds a frame id, FALSE when null.
NewSim(options) ==
    [options |-> options,
     x |-> 0,
     y |-> 0,
     z |-> options.initialAltitudeMeters,
     headingDeg |-> options.initialHeadingDeg,
     speedMps |-> KtToMps(options.initialSpeedKt),
     bankAngleDeg |-> 0,
     pitchAngleDeg |-> 0,
     speedInput |-> 0,
     turnInput |-> 0,
     pitchInput |-> 0,
     targetSpeedKt |-> None,
     targetHeadingDeg |-> None,
     targetAltitudeFt |-> None,
     verticalSpeedLimitFpm |-> None,
     currentOriginAltitudeMeters |-> options.originAltitudeMeters,
     lastTimestamp |-> None,
     animationFrameId |-> FALSE,
     isRunning |-> FALSE,
     positionHistory |-> << >>,
     lastUpdateTime |-> None,
     cumulativeDistance |-> 0]

\* animationFrameId = requestAnimationFrame(updatePosition)
scheduleUpdate(s) ==
    [s EXCEPT !.r.animationFrameId = TRUE,
              !.f = [cur |-> TRUE, stale |-> @.stale + (IF @.cur THEN 1 ELSE 0)]]

\* if (animationFrameId) { cancelAnimationFrame(animationFrameId); animationFrameId = null }
cancelUpdate(s) ==
    IF s.r.animationFrameId
    THEN [s EXCEPT !.r.animationFrameId = FALSE, !.f.cur = FALSE]
    ELSE s

\* A timestamp variable is falsy when null or 0.
Falsy(t) == t = None \/ t[1] = 0

\* updateSpeed without the clamp of line 287.
updateSpeed_Unclamped(r, deltaTime) ==
    LET maxSpeedChange == Rnd(speedAccelMps2 * deltaTime, 1000)
        targetSpeedMps == KtToMps(r.targetSpeedKt[1])
        speedDiff == targetSpeedMps - r.speedMps
        r1 == IF r.targetSpeedKt = None THEN r
              ELSE IF Abs(speedDiff) > SPEED_TOLERANCE_MPS
              THEN [r EXCEPT !.speedInput =
                        Clamp(-1000, 1000, Rnd(speedDiff * 1000, maxSpeedChange))]
              ELSE [r EXCEPT !.speedInput = 0, !.speedMps = targetSpeedMps]
    IN  [r1 EXCEPT !.speedMps = r1.speedMps + Rnd(r1.speedInput * maxSpeedChange, 1000)]

\* Lines 269-287: speed toward the target or by the input, kept in range.
updateSpeed(r, deltaTime) ==
    LET maxSpeedChange == Rnd(speedAccelMps2 * deltaTime, 1000)
        targetSpeedMps == KtToMps(r.targetSpeedKt[1])
        speedDiff == targetSpeedMps - r.speedMps
        r1 == IF r.targetSpeedKt = None THEN r
              ELSE IF Abs(speedDiff) > SPEED_TOLERANCE_MPS
              THEN [r EXCEPT !.speedInput =
                        Clamp(-1000, 1000, Rnd(speedDiff * 1000, maxSpeedChange))]
              ELSE [r EXCEPT !.speedInput = 0, !.speedMps = targetSpeedMps]
        speedChange == Rnd(r1.speedInput * maxSpeedChange, 1000)
    IN  [r1 EXCEPT !.speedMps = Clamp(minSpeedMps, maxSpeedMps, r1.speedMps + speedChange)]

\* Lines 295-309: turn input toward the heading target, or the snap onto it.
updateTurn(r) ==
    LET headingDiff == normalizeHeadingDiff(r.targetHeadingDeg[1] - r.headingDeg)
        desiredTurnRate == Clamp(-maxTurnRateDegps, maxTurnRateDegps, headingDiff * 2)
    IN  IF r.targetHeadingDeg = None THEN r
        ELSE IF Abs(headingDiff) > HEADING_TOLERANCE_DEG
        THEN [r EXCEPT !.turnInput = Rnd(desiredTurnRate * 1000, maxTurnRateDegps)]
        ELSE [r EXCEPT !.turnInput = 0, !.headingDeg = r.targetHeadingDeg[1]]

\* turnRate = turnInput * maxTurnRateDegps (lines 292, 308).
TurnRate(r) == Rnd(r.turnInput * maxTurnRateDegps, 1000)

\* value += |diff| > maxChange ? sign(diff) * maxChange : diff
Toward(value, target, maxChange) ==
    IF Abs(target - value) > maxChange
    THEN value + Sign(target - value) * maxChange
    ELSE target

\* updateBank without the clamp of line 318.
updateBank_Unclamped(r, deltaTime) ==
    LET turnRate == TurnRate(r)
        coordinated == toDegrees(atan(Rnd(toRadians(turnRate) * r.speedMps, g)))
        targetBankAngleDeg ==
            IF Abs(turnRate) > minTurnRateDegps /\ r.speedMps > minManoeuvreSpeedMps
            THEN coordinated
            ELSE 0
    IN  [r EXCEPT !.bankAngleDeg =
            Toward(@, targetBankAngleDeg, Rnd(bankAngleSmoothingRate * deltaTime, 1000))]

\* Lines 311-326: bank angle of the coordinated turn, rate limited.
updateBank(r, deltaTime) ==
    LET turnRate == TurnRate(r)
        coordinated == toDegrees(atan(Rnd(toRadians(turnRate) * r.speedMps, g)))
        targetBankAngleDeg ==
            IF Abs(turnRate) > minTurnRateDegps /\ r.speedMps > minManoeuvreSpeedMps
            THEN Clamp(-maxBankAngleDeg, maxBankAngleDeg, coordinated)
            ELSE 0
    IN  [r EXCEPT !.bankAngleDeg =
            Toward(@, targetBankAngleDeg, Rnd(bankAngleSmoothingRate * deltaTime, 1000))]

\* Lines 329-373: pitch toward the altitude target or by the input; the
\* snap onto the target altitude clears the target.
updatePitch(r, deltaTime) ==
    LET targetAltitudeMeters == FtToM(r.targetAltitudeFt[1]) - r.currentOriginAltitudeMeters
        altitudeDiff == targetAltitudeMeters - r.z
        limitMps == FpmToMps(r.verticalSpeedLimitFpm[1])
        unlimited == Clamp(-maxDescentRateMps, maxClimbRateMps, Rnd(altitudeDiff, 10))
        desiredVerticalSpeedMps ==
            IF r.verticalSpeedLimitFpm # None THEN Clamp(-limitMps, limitMps, unlimited)
            ELSE unlimited
        requiredPitchDeg ==
            toDegrees(asin(Clamp(-10000, 10000,
                                 Rnd(desiredVerticalSpeedMps * 10000, r.speedMps))))
        required == Clamp(-maxPitchAngleDeg, maxPitchAngleDeg, requiredPitchDeg)
        away == r.targetAltitudeFt # None /\ Abs(altitudeDiff) > ALTITUDE_TOLERANCE_M
        steer == away /\ r.speedMps > minManoeuvreSpeedMps
        r1 == IF r.targetAltitudeFt = None THEN r
              ELSE IF away
              THEN (IF steer THEN [r EXCEPT !.pitchInput = Rnd(required * 1000, maxPitchAngleDeg)]
                    ELSE r)
              ELSE [r EXCEPT !.z = targetAltitudeMeters, !.pitchInput = 0,
                             !.targetAltitudeFt = None]
        targetPitchAngleDeg ==
            IF r.targetAltitudeFt # None THEN (IF steer THEN required ELSE 0)
            ELSE IF Abs(r.pitchInput) > pitchDeadband
            THEN Clamp(-maxPitchAngleDeg, maxPitchAngleDeg,
                       Rnd(r.pitchInput * maxPitchAngleDeg, 1000))
            ELSE 0
    IN  [r1 EXCEPT !.pitchAngleDeg =
            Toward(@, targetPitchAngleDeg, Rnd(pitchAngleSmoothingRate * deltaTime, 1000))]

\* Line 376.
updateHeading(r, deltaTime) ==
    [r EXCEPT !.headingDeg =
        normalizeHeading(Exact(r.headingDeg + Rnd(TurnRate(r) * deltaTime, 1000)))]

\* VerticalSpeed without the vertical speed limit of lines 391-394.
VerticalSpeed_Unlimited(r) ==
    LET raw == Rnd(r.speedMps * sin(r.pitchAngleDeg), 10000)
    IN  IF raw > 0 THEN Min(raw, maxClimbRateMps) ELSE Max(raw, -maxDescentRateMps)

\* Lines 383-394: speed * sin(pitch), within the climb and descent rates
\* and the vertical speed limit.
VerticalSpeed(r) ==
    LET raw == Rnd(r.speedMps * sin(r.pitchAngleDeg), 10000)
        rated == IF raw > 0 THEN Min(raw, maxClimbRateMps) ELSE Max(raw, -maxDescentRateMps)
        limitMps == FpmToMps(r.verticalSpeedLimitFpm[1])
    IN  IF r.verticalSpeedLimitFpm # None THEN Clamp(-limitMps, limitMps, rated) ELSE rated

\* updateAltitude without the floor of lines 398-399.
updateAltitude_NoFloor(r, deltaTime) ==
    [r EXCEPT !.z = @ + Rnd(VerticalSpeed(r) * deltaTime, 1000)]

\* Lines 396-399.
updateAltitude(r, deltaTime) ==
    LET minAltitudeMeters == r.options.initialAltitudeMeters - floorDepthM
    IN  [r EXCEPT !.z = Max(minAltitudeMeters, @ + Rnd(VerticalSpeed(r) * deltaTime, 1000))]

\* Lines 403-406.
updateXY(r, deltaTime) ==
    LET distance == Rnd(Rnd(r.speedMps * deltaTime, 1000) * cos(r.pitchAngleDeg), 10000)
    IN  [r EXCEPT !.x = @ + Rnd(sin(r.headingDeg) * distance, 10000),
                  !.y = @ - Rnd(cos(r.headingDeg) * distance, 10000)]

Sample(r, cumulativeDistance, timestamp) ==
    [x |-> r.x, y |-> r.y, z |-> r.z,
     cumulativeDistance |-> cumulativeDistance, timestamp |-> timestamp]

\* CutoffIndex that keeps the last sample beyond maxTrailDistanceM as well.
CutoffIndex_KeepsOneMore(history, newestDistance) ==
    LET within == {i \in 0..(Len(history) - 2) :
                      newestDistance - history[i + 1].cumulativeDistance <= maxTrailDistanceM}
        first == IF within = {} THEN 0 ELSE CHOOSE i \in within : \A j \in within : i <= j
    IN  IF first > 0 THEN first - 1 ELSE 0

\* Lines 434-451: the index of the first sample within maxTrailDistanceM
\* of the newest one, the newest itself not being looked at; 0 when none.
CutoffIndex(history, newestDistance) ==
    LET within == {i \in 0..(Len(history) - 2) :
                      newestDistance - history[i + 1].cumulativeDistance <= maxTrailDistanceM}
    IN  IF within = {} THEN 0 ELSE CHOOSE i \in within : \A j \in within : i <= j

\* positionHistory.slice(cutoffIndex) when cutoffIndex > 0.
Trim(history, newestDistance) ==
    LET cutoffIndex == CutoffIndex(history, newestDistance)
    IN  IF Len(history) > 1 /\ cutoffIndex > 0
        THEN SubSeq(history, cutoffIndex + 1, Len(history))
        ELSE history

\* Lines 409-454: a trail sample every updateIntervalMs.
updateHistory(r, currentTime) ==
    LET shouldUpdateHistory ==
            \/ Falsy(r.lastUpdateTime)
            \/ currentTime - r.lastUpdateTime[1] >= updateIntervalMs
        lastPoint == r.positionHistory[Len(r.positionHistory)]
        dx == r.x - lastPoint.x
        dy == r.y - lastPoint.y
        cumulativeDistance ==
            IF Len(r.positionHistory) > 0
            THEN r.cumulativeDistance + sqrt(dx * dx + dy * dy)
            ELSE r.cumulativeDistance
        pushed == Append(r.positionHistory, Sample(r, cumulativeDistance, currentTime))
    IN  IF shouldUpdateHistory
        THEN [r EXCEPT !.cumulativeDistance = cumulativeDistance,
                       !.positionHistory = Trim(pushed, cumulativeDistance),
                       !.lastUpdateTime = Some(currentTime)]
        ELSE r

\* The object handed to onUpdate (lines 458-467).
Update(r) ==
    [x |-> r.x, y |-> r.y, z |-> r.z, headingDeg |-> r.headingDeg,
     bankAngleDeg |-> r.bankAngleDeg, pitchAngleDeg |-> r.pitchAngleDeg,
     speedMps |-> r.speedMps, positionHistory |-> r.positionHistory]

onUpdate(s) == [s EXCEPT !.c = Append(@, Update(s.r))]

\* The body of updatePosition for a valid deltaTime (lines 269-454).
Integrate(r, deltaTime, timestamp) ==
    LET r1 == updateSpeed(r, deltaTime)
        r2 == updateTurn(r1)
        r3 == updateBank(r2, deltaTime)
        r4 == updatePitch(r3, deltaTime)
        r5 == updateHeading(r4, deltaTime)
        r6 == updateAltitude(r5, deltaTime)
        r7 == updateXY(r6, deltaTime)
    IN  updateHistory(r7, timestamp)

\* updatePosition that skips a frame without recording its timestamp.
updatePosition_SkipForgets(s, timestamp) ==
    IF ~s.r.isRunning THEN s
    ELSE LET deltaTime ==
                 IF Falsy(s.r.lastTimestamp) THEN 0 ELSE timestamp - s.r.lastTimestamp[1]
             s1 == [s EXCEPT !.r.lastTimestamp = Some(timestamp)]
         IN  IF deltaTime <= 0 \/ deltaTime > maxDeltaTimeMs
             THEN scheduleUpdate(IF Falsy(s.r.lastTimestamp) THEN s1 ELSE s)
             ELSE scheduleUpdate(
                      onUpdate([s1 EXCEPT !.r = Integrate(s1.r, deltaTime, timestamp)]))

\* updatePosition that measures the first frame's deltaTime from the newest
\* sample of the trail.
updatePosition_ClockFromTrail(s, timestamp) ==
    IF ~s.r.isRunning THEN s
    ELSE LET history == s.r.positionHistory
             deltaTime ==
                 IF ~Falsy(s.r.lastTimestamp) THEN timestamp - s.r.lastTimestamp[1]
                 ELSE IF Len(history) > 0 THEN timestamp - history[Len(history)].timestamp
                 ELSE 0
             s1 == [s EXCEPT !.r.lastTimestamp = Some(timestamp)]
         IN  IF deltaTime <= 0 \/ deltaTime > maxDeltaTimeMs
             THEN scheduleUpdate(s1)
             ELSE scheduleUpdate(
                      onUpdate([s1 EXCEPT !.r = Integrate(s1.r, deltaTime, timestamp)]))

\* updatePosition(timestamp) (lines 256-470), the frame callback.
updatePosition(s, timestamp) ==
    IF ~s.r.isRunning THEN s
    ELSE LET deltaTime ==
                 IF Falsy(s.r.lastTimestamp) THEN 0 ELSE timestamp - s.r.lastTimestamp[1]
             s1 == [s EXCEPT !.r.lastTimestamp = Some(timestamp)]
         IN  IF deltaTime <= 0 \/ deltaTime > maxDeltaTimeMs
             THEN scheduleUpdate(s1)
             ELSE scheduleUpdate(
                      onUpdate([s1 EXCEPT !.r = Integrate(s1.r, deltaTime, timestamp)]))

\* start() without the guard of line 478.
simStart_Unguarded(s, perfNow) ==
    LET s1 == [s EXCEPT !.r.isRunning = TRUE, !.r.lastTimestamp = None]
        s2 == IF Len(s1.r.positionHistory) = 0
              THEN [s1 EXCEPT !.r.positionHistory = << Sample(s1.r, 0, perfNow) >>]
              ELSE s1
    IN  scheduleUpdate(s2)

\* start() (lines 477-492).
simStart(s, perfNow) ==
    IF s.r.isRunning THEN s
    ELSE LET s1 == [s EXCEPT !.r.isRunning = TRUE, !.r.lastTimestamp = None]
             s2 == IF Len(s1.r.positionHistory) = 0
                   THEN [s1 EXCEPT !.r.positionHistory = << Sample(s1.r, 0, perfNow) >>]
                   ELSE s1
         IN  scheduleUpdate(s2)

\* stop() (lines 494-501).
simStop(s) ==
    LET s1 == cancelUpdate([s EXCEPT !.r.isRunning = FALSE])
    IN  [s1 EXCEPT !.r.lastTimestamp = None]

\* reset() (lines 503-522).
simReset(s) ==
    LET s1 == simStop(s)
    IN  [s1 EXCEPT !.r = [NewSim(s.r.options) EXCEPT
                             !.currentOriginAltitudeMeters = s1.r.currentOriginAltitudeMeters]]

\* The argument of setControls: each axis absent or a number.
Controls(speed, turn, pitch) == [speed |-> speed, turn |-> turn, pitch |-> pitch]

\* setControls that clears the target of every axis it is given, 0 included.
setControls_ZeroClears(r, controls) ==
    LET r1 == IF controls.speed = None THEN r
              ELSE [r EXCEPT !.speedInput = Clamp(-1000, 1000, controls.speed[1]),
                             !.targetSpeedKt = None]
        r2 == IF controls.turn = None THEN r1
              ELSE [r1 EXCEPT !.turnInput = Clamp(-1000, 1000, controls.turn[1]),
                              !.targetHeadingDeg = None]
    IN  IF controls.pitch = None THEN r2
        ELSE [r2 EXCEPT !.pitchInput = Clamp(-1000, 1000, controls.pitch[1]),
                        !.targetAltitudeFt = None]

\* setControls({ speed, turn, pitch }) (lines 524-543).
setControls(r, controls) ==
    LET r1 == IF controls.speed = None THEN r
              ELSE [r EXCEPT !.speedInput = Clamp(-1000, 1000, controls.speed[1]),
                             !.targetSpeedKt = IF controls.speed[1] # 0 THEN None ELSE @]
        r2 == IF controls.turn = None THEN r1
              ELSE [r1 EXCEPT !.turnInput = Clamp(-1000, 1000, controls.turn[1]),
                              !.targetHeadingDeg = IF controls.turn[1] # 0 THEN None ELSE @]
    IN  IF controls.pitch = None THEN r2
        ELSE [r2 EXCEPT !.pitchInput = Clamp(-1000, 1000, controls.pitch[1]),
                        !.targetAltitudeFt = IF controls.pitch[1] # 0 THEN None ELSE @]

\* setSpeed (lines 558-562).
setSpeed(r, targetSpeedKnots) ==
    [r EXCEPT !.targetSpeedKt = Some(Clamp(minTargetSpeedKt, maxTargetSpeedKt, targetSpeedKnots))]

\* setHeading (lines 564-567).
setHeading(r, targetHeadingDegrees) ==
    [r EXCEPT !.targetHeadingDeg = Some(normalizeHeading(targetHeadingDegrees))]

\* setAltitude (lines 569-573).
setAltitude(r, targetAltitudeFeet) ==
    [r EXCEPT !.targetAltitudeFt =
        Some(Clamp(minTargetAltitudeFt, maxTargetAltitudeFt, targetAltitudeFeet))]

\* setVerticalSpeedLimit (lines 575-584); None is the argument null.
setVerticalSpeedLimit(r, limitFeetPerMinute) ==
    IF limitFeetPerMinute = None THEN [r EXCEPT !.verticalSpeedLimitFpm = None]
    ELSE LET absLimit == IF limitFeetPerMinute[1] < 0 THEN -limitFeetPerMinute[1]
                         ELSE limitFeetPerMinute[1]
         IN  [r EXCEPT !.verticalSpeedLimitFpm =
                Some(IF absLimit > maxVerticalSpeedLimitFpm THEN maxVerticalSpeedLimitFpm
                     ELSE IF absLimit < 0 THEN 0 ELSE absLimit)]

\* clearSpeed, clearHeading, clearAltitude, clearVerticalSpeedLimit (lines 587-601).
clearSpeed(r) == [r EXCEPT !.targetSpeedKt = None]
clearHeading(r) == [r EXCEPT !.targetHeadingDeg = None]
clearAltitude(r) == [r EXCEPT !.targetAltitudeFt = None]
clearVerticalSpeedLimit(r) == [r EXCEPT !.verticalSpeedLimitFpm = None]

\* getTargets() (lines 604-611).
getTargets(r) ==
    [speedKt |-> r.targetSpeedKt, headingDeg |-> r.targetHeadingDeg,
     altitudeFt |-> r.targetAltitudeFt, verticalSpeedLimitFpm |-> r.verticalSpeedLimitFpm]

\* updateOriginAltitude (lines 613-616).
updateOriginAltitude(r, newOriginAltitudeMeters) ==
    [r EXCEPT !.currentOriginAltitudeMeters = newOriginAltitudeMeters]

\* createSim's defaults (lines 180-183).
DefaultOptions == SimOptions(0, 0, 0, 140)

simVars == << sim, simFrames, emitted, arg, ticks, apiCalls, simState >>

\* ------------------------------------------------------------ the system

IsEventCall(x) == x.id # 0
\* The event callbacks among the hook invocations c, in order.
EventCalls(c) == SelectSeq(c, IsEventCall)

NoDispatch == [i \in EventIds |-> 0]

Count(c, i) == Cardinality({k \in 1..Len(c) : c[k].id = i})

\* The same runner code on the same inputs, for the runner kept in fresh.
Alike(s) == [r |-> s.r, c |-> s.c, via |-> fresh.via]
Anew(s, via) == [r |-> s.r, c |-> s.c, via |-> via]
FreshStep == Step(fresh.r, NoFrames)

Init ==
    /\ runner = NewRunner
    /\ frames = NoFrames
    /\ calls = << >>
    /\ error = FALSE
    /\ callbacks \in HookSets
    /\ now = 0
    /\ op = "init"
    /\ dispatched = NoDispatch
    /\ runMs = 0
    /\ resumed = FALSE
    /\ completed = FALSE
    /\ fresh = [r |-> NewRunner, c |-> << >>, via |-> "create"]
    /\ sim = NewSim(DefaultOptions)
    /\ simFrames = NoFrames
    /\ emitted = << >>
    /\ arg = None
    /\ ticks = 0
    /\ apiCalls = 0
    /\ simState = None

\* What every operation leaves behind.
Commit(s, name) ==
    /\ runner' = s.r
    /\ frames' = s.f
    /\ calls' = s.c
    /\ error' = s.threw
    /\ op' = name
    /\ UNCHANGED << callbacks, simVars >>

LoadScenario(scenario) ==
    /\ Commit(loadScenario(Step(runner, frames), scenario), "loadScenario")
    /\ fresh' = Anew(loadScenario(Step(NewRunner, NoFrames), scenario), "loadScenario")
    /\ dispatched' = NoDispatch
    /\ runMs' = 0
    /\ resumed' = FALSE
    /\ completed' = FALSE
    /\ UNCHANGED now

Start ==
    LET s == start(Step(runner, frames), now)
    IN  /\ s.f.stale <= MaxStale
        /\ Commit(s, "start")
        /\ fresh' = Alike(start(FreshStep, now))
        /\ resumed' = (resumed \/ (op = "wait" /\ ~runner.isRunning /\ runner.pauseOffsetMs > 0))
        /\ UNCHANGED << now, dispatched, runMs, completed >>

Pause ==
    /\ Commit(pause(Step(runner, frames), now), "pause")
    /\ fresh' = Alike(pause(FreshStep, now))
    /\ UNCHANGED << now, dispatched, runMs, resumed, completed >>

Reset ==
    /\ Commit(reset(Step(runner, frames), now), "reset")
    /\ fresh' = Anew(loadScenario(Step(NewRunner, NoFrames), runner.activeScenario), "reset")
    /\ dispatched' = NoDispatch
    /\ runMs' = 0
    /\ resumed' = FALSE
    /\ completed' = FALSE
    /\ UNCHANGED now

\* The browser runs a scheduled frame callback: tick(now) with the frame
\* timestamp; performance.now() inside the callback reads lag later.
TickFrame(f, lag) ==
    LET s == tick(Step(runner, f), now, now + lag)
    IN  /\ Commit(s, IF runner.isRunning THEN "tick" ELSE "tickIdle")
        /\ fresh' = Alike(tick(FreshStep, now, now + lag))
        /\ dispatched' = [i \in EventIds |-> dispatched[i] + Count(s.c, i)]
        /\ runMs' = IF runner.isRunning THEN runMs + lag ELSE runMs
        /\ completed' = (completed \/ (runner.isRunning /\ ~s.r.isRunning))
        /\ now' = now + lag
        /\ UNCHANGED resumed

RunFrame(f, lag) ==
    /\ now + lag <= MaxNow
    /\ TickFrame(f, lag)

\* The callback whose id rafId holds.
Frame(lag) ==
    /\ frames.cur
    /\ RunFrame([frames EXCEPT !.cur = FALSE], lag)

\* A callback scheduled earlier, whose id rafId no longer holds.
StaleFrame(lag) ==
    /\ frames.stale > 0
    /\ RunFrame([frames EXCEPT !.stale = @ - 1], lag)

\* Wall-clock time passes.
Elapse(d) ==
    /\ now' = now + d
    /\ runMs' = IF runner.isRunning THEN runMs + d ELSE runMs
    /\ op' = "wait"
    /\ calls' = << >>
    /\ fresh' = [fresh EXCEPT !.c = << >>]
    /\ UNCHANGED << runner, frames, error, callbacks, dispatched, resumed, completed,
                    simVars >>

Wait(d) ==
    /\ now + d <= MaxNow
    /\ Elapse(d)

Next ==
    \/ \E scenario \in Scenarios : LoadScenario(scenario)
    \/ Start
    \/ Pause
    \/ Reset
    \/ \E lag \in Lags : Frame(lag)
    \/ \E lag \in Lags : StaleFrame(lag)
    \/ \E d \in WaitSteps : Wait(d)

Spec == Init /\ [][Next]_vars

\* ------------------------------------------------------- whole scenarios
\*
\* Scenarios played to their end: the clock runs for MaxPlaySec seconds in
\* steps of half a minute, long enough for the computed durations (90 s and
\* more) to elapse.  The frame timestamp and performance.now() agree.

PlaySteps == {30000}
PlayedScenarios == {ScenarioA, ScenarioB, ScenarioE}

Play(d) ==
    /\ now + d <= MaxPlaySec * MsPerSecond
    /\ Elapse(d)

PlayFrame ==
    /\ frames.cur
    /\ TickFrame([frames EXCEPT !.cur = FALSE], 0)

PlayStaleFrame ==
    /\ frames.stale > 0
    /\ TickFrame([frames EXCEPT !.stale = @ - 1], 0)

PlayNext ==
    \/ \E scenario \in PlayedScenarios : LoadScenario(scenario)
    \/ Start
    \/ Pause
    \/ Reset
    \/ PlayFrame
    \/ PlayStaleFrame
    \/ \E d \in PlaySteps : Play(d)

PlaySpec == Init /\ [][PlayNext]_vars

\* ------------------------------------------------------ the engine at work

\* The runner's variables, which the engine does not touch.
runnerVars == << runner, frames, calls, error, callbacks, dispatched, runMs,
                 resumed, completed, fresh >>

RunnerIdle ==
    /\ runner = NewRunner
    /\ frames = NoFrames
    /\ calls = << >>
    /\ error = FALSE
    /\ callbacks = AllHooks
    /\ dispatched = NoDispatch
    /\ runMs = 0
    /\ resumed = FALSE
    /\ completed = FALSE
    /\ fresh = [r |-> NewRunner, c |-> << >>, via |-> "create"]

\* Time between two frames (ms): a frame in time, and one after a stall.
FrameGaps == {100, 150}

\* Scenario starts: heading next to north on either side, speed at either
\* end of the envelope or outside it, the origin at 300 m or at sea level.
EngineOptions ==
    { SimOptions(10, 0, 300000, 80), SimOptions(35990, 0, 0, 250),
      SimOptions(9000, 0, 0, 40) }

\* An engine in flight: started, the first frame (which only records its
\* timestamp) delivered at time t, targets set as Map.vue sets them.
InFlight(options, t) ==
    LET r == setHeading(setSpeed(NewSim(options), options.initialSpeedKt),
                        Exact(options.initialHeadingDeg))
    IN  updatePosition(simStart(Step(r, NoFrames), t), t)

ControlArgs ==
    { Controls(Some(1000), None, None), Controls(None, Some(-2500), None),
      Controls(None, None, Some(500)), Controls(Some(0), Some(0), Some(0)) }
SpeedArgs == {30, 500}
HeadingArgs == {JustBelow(0), Exact(-9000), Exact(72010)}
AltitudeArgs == {-2000, 3300, 70000}
LimitArgs == {Some(-500), Some(5000), Some(0), None}

\* What every engine operation leaves behind.
SimCommit(s, name, a) ==
    /\ sim' = s.r
    /\ simFrames' = s.f
    /\ emitted' = s.c
    /\ op' = name
    /\ arg' = a
    /\ UNCHANGED runnerVars

\* A call of the API: it reads no clock and is given no frame.
ApiCall(s, name, a) ==
    /\ apiCalls' = apiCalls + 1
    /\ SimCommit(s, name, a)
    /\ UNCHANGED << now, ticks, simState >>

\* A call that touches the closure state alone.
SimCall(r, name, a) == ApiCall(Step(r, simFrames), name, a)

SimStart ==
    /\ apiCalls < MaxCalls
    /\ ApiCall(simStart(Step(sim, simFrames), now), "start", None)

SimStop ==
    /\ apiCalls < MaxCalls
    /\ ApiCall(simStop(Step(sim, simFrames)), "stop", None)

SimReset ==
    /\ apiCalls < MaxCalls
    /\ ApiCall(simReset(Step(sim, simFrames)), "reset", None)

SetControls(controls) ==
    /\ apiCalls < MaxCalls
    /\ SimCall(setControls(sim, controls), "setControls", controls)

SetSpeed(v) ==
    /\ apiCalls < MaxCalls
    /\ SimCall(setSpeed(sim, v), "setSpeed", v)

SetHeading(h) ==
    /\ apiCalls < MaxCalls
    /\ SimCall(setHeading(sim, h), "setHeading", h)

SetAltitude(a) ==
    /\ apiCalls < MaxCalls
    /\ SimCall(setAltitude(sim, a), "setAltitude", a)

SetVerticalSpeedLimit(l) ==
    /\ apiCalls < MaxCalls
    /\ SimCall(setVerticalSpeedLimit(sim, l), "setVerticalSpeedLimit", l)

ClearSpeed ==
    /\ apiCalls < MaxCalls
    /\ SimCall(clearSpeed(sim), "clearSpeed", None)

ClearHeading ==
    /\ apiCalls < MaxCalls
    /\ SimCall(clearHeading(sim), "clearHeading", None)

ClearAltitude ==
    /\ apiCalls < MaxCalls
    /\ SimCall(clearAltitude(sim), "clearAltitude", None)

ClearVerticalSpeedLimit ==
    /\ apiCalls < MaxCalls
    /\ SimCall(clearVerticalSpeedLimit(sim), "clearVerticalSpeedLimit", None)

\* The browser runs the scheduled frame callback, gap ms after the clock's
\* last reading: updatePosition(timestamp).  op tells what the callback did:
\* "update" when it integrated and called onUpdate, "skip" when it did not.
RunUpdate(gap) ==
    LET s == updatePosition(Step(sim, [simFrames EXCEPT !.cur = FALSE]), now + gap)
    IN  /\ simFrames.cur
        /\ ticks' = ticks + 1
        /\ now' = now + gap
        /\ SimCommit(s, IF s.c # << >> THEN "update" ELSE "skip", gap)
        /\ UNCHANGED << apiCalls, simState >>

SimFrame(gap) ==
    /\ ticks < MaxTicks
    /\ RunUpdate(gap)

EngineInit ==
    /\ RunnerIdle
    /\ now = 1000
    /\ op = "createSim"
    /\ arg = None
    /\ emitted = << >>
    /\ ticks = 0
    /\ apiCalls = 0
    /\ simState = None
    /\ \E options \in EngineOptions :
          \/ sim = NewSim(options) /\ simFrames = NoFrames
          \/ sim = InFlight(options, now).r /\ simFrames = InFlight(options, now).f

EngineNext ==
    \/ SimStart
    \/ SimStop
    \/ SimReset
    \/ \E controls \in ControlArgs : SetControls(controls)
    \/ \E v \in SpeedArgs : SetSpeed(v)
    \/ \E h \in HeadingArgs : SetHeading(h)
    \/ \E a \in AltitudeArgs : SetAltitude(a)
    \/ \E l \in LimitArgs : SetVerticalSpeedLimit(l)
    \/ ClearSpeed
    \/ ClearHeading
    \/ ClearAltitude
    \/ ClearVerticalSpeedLimit
    \/ \E gap \in FrameGaps : SimFrame(gap)

EngineSpec == EngineInit /\ [][EngineNext]_vars


\* ------------------------------------------------------ the intent applier
\*
\* IntentApplier: applyIntentToSim of src/App.vue (lines 1669-1728).  A
\* field of the intent is Some(n) when isNumber accepts it (a finite
\* number) and None otherwise (absent, null, a string); specialAction and
\* verticalMode are Some(text) or None.

Intent(heading, track, altitude, speed, verticalMode, specialAction) ==
    [isNull |-> FALSE, targetHeadingDeg |-> heading, targetTrackDeg |-> track,
     targetAltitudeFt |-> altitude, targetSpeedKt |-> speed,
     verticalMode |-> verticalMode, specialAction |-> specialAction]
\* The argument null.
NullIntent == [isNull |-> TRUE]

Resume == Some("resumeOwnNavigation")
IsResume(intent) == ~intent.isNull /\ intent.specialAction = Resume

\* The value of the shared sim state: the altitude in feet it shows, if
\* any, and the special action last applied.
SimState(altitudeFt, specialAction) ==
    [altitudeFt |-> altitudeFt, specialAction |-> specialAction]

\* simStateRef?.value?.altitudeFt != null
KnowsAltitude(simStateRef) == simStateRef # None /\ simStateRef[1].altitudeFt # None

\* The altitude the observer of the engine shows, in feet (Map.vue line 288).
ShownAltitudeFt(r) == Rnd((r.currentOriginAltitudeMeters + r.z) * 10, FT_TO_M)

\* applyIntentToSim that clears all three targets on resumeOwnNavigation,
\* whatever else the intent carries.
applyIntentToSim_ResumeClearsAll(r, intent, simStateRef) ==
    IF intent.isNull THEN [r |-> r, ref |-> simStateRef]
    ELSE LET resume == intent.specialAction = Resume
             r1 == IF resume THEN clearHeading(r)
                   ELSE IF intent.targetHeadingDeg # None
                   THEN setHeading(r, intent.targetHeadingDeg[1])
                   ELSE r
             r2 == IF intent.targetTrackDeg # None /\ ~resume
                   THEN setHeading(r1, intent.targetTrackDeg[1])
                   ELSE r1
             r3 == IF resume THEN clearAltitude(r2)
                   ELSE IF intent.targetAltitudeFt # None
                   THEN setAltitude(r2, intent.targetAltitudeFt[1])
                   ELSE IF intent.verticalMode = Some("level") /\ KnowsAltitude(simStateRef)
                   THEN setAltitude(r2, simStateRef[1].altitudeFt[1])
                   ELSE r2
             r4 == IF resume THEN clearSpeed(r3)
                   ELSE IF intent.targetSpeedKt # None
                   THEN setSpeed(r3, intent.targetSpeedKt[1])
                   ELSE r3
         IN  [r |-> r4,
              ref |-> IF simStateRef = None THEN None
                      ELSE Some([simStateRef[1] EXCEPT !.specialAction = intent.specialAction])]

\* applyIntentToSim that holds the current altitude whenever the intent
\* names no altitude.
applyIntentToSim_AlwaysLevels(r, intent, simStateRef) ==
    IF intent.isNull THEN [r |-> r, ref |-> simStateRef]
    ELSE LET resume == intent.specialAction = Resume
             r1 == IF intent.targetHeadingDeg # None
                   THEN setHeading(r, intent.targetHeadingDeg[1])
                   ELSE IF resume THEN clearHeading(r)
                   ELSE r
             r2 == IF intent.targetTrackDeg # None
                   THEN setHeading(r1, intent.targetTrackDeg[1])
                   ELSE r1
             r3 == IF intent.targetAltitudeFt # None
                   THEN setAltitude(r2, intent.targetAltitudeFt[1])
                   ELSE IF KnowsAltitude(simStateRef)
                   THEN setAltitude(r2, simStateRef[1].altitudeFt[1])
                   ELSE IF resume THEN clearAltitude(r2)
                   ELSE r2
             r4 == IF intent.targetSpeedKt # None
                   THEN setSpeed(r3, intent.targetSpeedKt[1])
                   ELSE IF resume THEN clearSpeed(r3)
                   ELSE r3
         IN  [r |-> r4,
              ref |-> IF simStateRef = None THEN None
                      ELSE Some([simStateRef[1] EXCEPT !.specialAction = intent.specialAction])]

\* applyIntentToSim(sim, intent, simStateRef) (lines 1669-1728): the engine
\* and the shared sim state it leaves.
applyIntentToSim(r, intent, simStateRef) ==
    IF intent.isNull THEN [r |-> r, ref |-> simStateRef]
    ELSE LET resume == intent.specialAction = Resume
             r1 == IF intent.targetHeadingDeg # None
                   THEN setHeading(r, intent.targetHeadingDeg[1])
                   ELSE IF resume THEN clearHeading(r)
                   ELSE r
             r2 == IF intent.targetTrackDeg # None
                   THEN setHeading(r1, intent.targetTrackDeg[1])
                   ELSE r1
             r3 == IF intent.targetAltitudeFt # None
                   THEN setAltitude(r2, intent.targetAltitudeFt[1])
                   ELSE IF intent.verticalMode = Some("level")
                   THEN (IF KnowsAltitude(simStateRef)
                         THEN setAltitude(r2, simStateRef[1].altitudeFt[1])
                         ELSE r2)
                   ELSE IF resume THEN clearAltitude(r2)
                   ELSE r2
             r4 == IF intent.targetSpeedKt # None
                   THEN setSpeed(r3, intent.targetSpeedKt[1])
                   ELSE IF resume THEN clearSpeed(r3)
                   ELSE r3
         IN  [r |-> r4,
              ref |-> IF simStateRef = None THEN None
                      ELSE Some([simStateRef[1] EXCEPT !.specialAction = intent.specialAction])]

\* Intents the pilot agent hands over: bare, with one numeric field, with
\* verticalMode level, with all fields, each with and without
\* resumeOwnNavigation; and one with another special action.
IntentFields ==
    { << None, None, None, None, None >>,
      << Some(Exact(27000)), None, None, None, None >>,
      << None, Some(Exact(9000)), None, None, None >>,
      << None, None, Some(5000), None, Some("climb") >>,
      << None, None, None, Some(200), None >>,
      << None, None, None, None, Some("level") >>,
      << Some(Exact(27000)), Some(Exact(9000)), Some(5000), Some(200), Some("level") >> }
Intents ==
    { Intent(f[1], f[2], f[3], f[4], f[5], special) :
          f \in IntentFields, special \in {None, Resume} }
    \cup { Intent(None, None, None, None, None, Some("goAround")), NullIntent }

\* Engines an intent arrives at: new, in flight with speed and heading
\* targets, and in flight with all four targets.
IntentOptions == SimOptions(10, 0, 300000, 80)
IntentEngines ==
    { Step(NewSim(IntentOptions), NoFrames),
      InFlight(IntentOptions, 1000),
      [InFlight(IntentOptions, 1000) EXCEPT
          !.r = setVerticalSpeedLimit(setAltitude(@, 3300), Some(500))] }

ApplyIntent(intent) ==
    LET applied == applyIntentToSim(sim, intent, simState)
    IN  /\ apiCalls < MaxCalls
        /\ apiCalls' = apiCalls + 1
        /\ SimCommit(Step(applied.r, simFrames), "applyIntentToSim", intent)
        /\ simState' = applied.ref
        /\ UNCHANGED << now, ticks >>

IntentInit ==
    /\ RunnerIdle
    /\ now = 1000
    /\ op = "createSim"
    /\ arg = None
    /\ emitted = << >>
    /\ ticks = 0
    /\ apiCalls = 0
    /\ \E s \in IntentEngines :
          /\ sim = s.r
          /\ simFrames = s.f
          /\ simState \in { None, Some(SimState(None, None)),
                            Some(SimState(Some(ShownAltitudeFt(s.r)), None)) }

IntentNext ==
    \/ \E intent \in Intents : ApplyIntent(intent)
    \/ \E a \in AltitudeArgs : SetAltitude(a)
    \/ \E l \in LimitArgs : SetVerticalSpeedLimit(l)

IntentSpec == IntentInit /\ [][IntentNext]_vars

\* ------------------------------------------------------------- long flights
\*
\* The trail: engines in flight are given frames at a steady rate for up to
\* MaxTrailTicks frames, long enough at 250 kt to fly past
\* maxTrailDistanceM.  The controls are set before the first of these
\* frames; at the end of the flight the engine may be reset and started
\* again.

TrailOptions ==
    { SimOptions(10, 0, 300000, 250), SimOptions(35990, 0, 0, 80),
      SimOptions(9000, 0, 0, 400) }
TrailControls ==
    { Controls(None, Some(-2500), None), Controls(None, None, Some(500)) }
TrailGaps == {100}

TrailSetControls(controls) ==
    /\ ticks = 0
    /\ apiCalls < MaxCalls
    /\ SimCall(setControls(sim, controls), "setControls", controls)

TrailFrame(gap) ==
    /\ ticks < MaxTrailTicks
    /\ RunUpdate(gap)

TrailReset ==
    /\ ticks = MaxTrailTicks
    /\ apiCalls < MaxCalls
    /\ ApiCall(simReset(Step(sim, simFrames)), "reset", None)

TrailStart ==
    /\ ~sim.isRunning
    /\ apiCalls < MaxCalls
    /\ ApiCall(simStart(Step(sim, simFrames), now), "start", None)

TrailInit ==
    /\ RunnerIdle
    /\ now = 1000
    /\ op = "createSim"
    /\ arg = None
    /\ emitted = << >>
    /\ ticks = 0
    /\ apiCalls = 0
    /\ simState = None
    /\ \E options \in TrailOptions :
          /\ sim = InFlight(options, now).r
          /\ simFrames = InFlight(options, now).f

TrailNext ==
    \/ \E controls \in TrailControls : TrailSetControls(controls)
    \/ \E gap \in TrailGaps : TrailFrame(gap)
    \/ TrailReset
    \/ TrailStart

TrailSpec == TrailInit /\ [][TrailNext]_vars

\* ------------------------------------------------------------------ climbs
\*
\* The altitude hold: engines in flight with an altitude target, given
\* frames for ever.  Nothing the vertical axis reads depends on x, y, the
\* trail or the absolute time (only on the time between frames), so after
\* each frame the horizontal position and the trail are put back to the
\* origin and the timestamps moved back by the frame's gap: the states of
\* an unending flight are then finitely many.  For the same reason ticks
\* counts the frames modulo 2.

ClimbOrigin == 2000000
ClimbOptions == SimOptions(9000, 0, ClimbOrigin, 140)
\* Altitude targets (ft) and vertical speed limits (fpm): a target above
\* the scenario's start altitude of 6562 ft and one below it, each with and
\* without a limit, and a target more than 1000 m below it.
ClimbOrders ==
    { << 7000, None >>, << 6000, None >>, << 7000, Some(500) >>, << 6000, Some(500) >>,
      << 1000, None >> }
ClimbGaps == {100}

Grounded(r, gap) ==
    [r EXCEPT !.x = 0, !.y = 0, !.positionHistory = << >>, !.cumulativeDistance = 0,
              !.lastTimestamp = Some(@[1] - gap), !.lastUpdateTime = None]

\* The engine as Map.vue creates it, with an altitude target and possibly
\* a vertical speed limit, after its first frame.
Climbing(target, limit) ==
    LET s == InFlight(ClimbOptions, 1000)
        r == setAltitude(s.r, target)
    IN  [s EXCEPT !.r = IF limit = None THEN r ELSE setVerticalSpeedLimit(r, limit)]

ClimbFrame(gap) ==
    LET s == updatePosition(Step(sim, [simFrames EXCEPT !.cur = FALSE]), now + gap)
    IN  /\ simFrames.cur
        /\ sim' = Grounded(s.r, gap)
        /\ simFrames' = s.f
        /\ emitted' = << >>
        /\ op' = IF s.c # << >> THEN "update" ELSE "skip"
        /\ ticks' = 1 - ticks
        /\ UNCHANGED << now, arg, apiCalls, simState, runnerVars >>

ClimbInit ==
    /\ RunnerIdle
    /\ now = 1000
    /\ op = "setAltitude"
    /\ emitted = << >>
    /\ ticks = 0
    /\ apiCalls = 0
    /\ simState = None
    /\ \E order \in ClimbOrders :
          /\ arg = order[1]
          /\ sim = Climbing(order[1], order[2]).r
          /\ simFrames = Climbing(order[1], order[2]).f

ClimbNext == \E gap \in ClimbGaps : ClimbFrame(gap)

\* A frame is given to the engine.
FrameGiven == simFrames.cur /\ ticks' = 1 - ticks

\* updatePosition schedules itself again at the end of every frame (lines
\* 265, 469), and the browser runs a scheduled callback: while a callback is
\* scheduled, frames keep being given.
ClimbSpec == ClimbInit /\ [][ClimbNext]_vars /\ WF_ticks(FrameGiven)

\* ------------------------------------------------------ climbs and dives
\*
\* The vertical axis under every kind of order: a manual pitch input, an
\* altitude target, a vertical speed limit, at 140 kt and at 250 kt (where
\* speed * sin(pitch) exceeds the climb and descent rates), with frames
\* every gap ms for up to MaxDiveTicks frames, long enough to descend the
\* 1000 m to the floor.  The horizontal position is put back after each
\* frame as in the climbs above.

DiveOptions == { ClimbOptions, SimOptions(9000, 0, ClimbOrigin, 250) }

DiveOrder(pitch, target, limit, gap) ==
    [pitch |-> pitch, target |-> target, limit |-> limit, gap |-> gap]

\* Full manual descent and climb, a limited manual descent; targets above
\* and below the start altitude of 6562 ft; a target far below the floor
\* (3281 ft) and one less than 10 m below it; limits of 500 and 0 fpm.
DiveOrders ==
    { DiveOrder(Some(-1000), None, None, 100),
      DiveOrder(Some(1000), None, None, 100),
      DiveOrder(Some(-1000), None, Some(500), 100),
      DiveOrder(None, Some(7000), None, 100),
      DiveOrder(None, Some(6000), None, 50),
      DiveOrder(None, Some(1000), None, 100),
      DiveOrder(None, Some(3270), None, 100),
      DiveOrder(None, Some(7000), Some(0), 100),
      DiveOrder(None, Some(6000), Some(500), 100) }

\* The engine as Map.vue creates it, after its first frame, given an order.
Diving(options, order) ==
    LET s == InFlight(options, 1000)
        r1 == IF order.pitch = None THEN s.r
              ELSE setControls(s.r, Controls(None, None, order.pitch))
        r2 == IF order.target = None THEN r1 ELSE setAltitude(r1, order.target[1])
        r3 == IF order.limit = None THEN r2 ELSE setVerticalSpeedLimit(r2, order.limit)
    IN  [s EXCEPT !.r = r3]

\* The browser runs the scheduled frame callback gap ms after the last one.
FlyFrame(gap) ==
    LET s == updatePosition(Step(sim, [simFrames EXCEPT !.cur = FALSE]), now + gap)
    IN  /\ simFrames.cur
        /\ sim' = Grounded(s.r, gap)
        /\ simFrames' = s.f
        /\ emitted' = << >>
        /\ op' = IF s.c # << >> THEN "update" ELSE "skip"
        /\ ticks' = ticks + 1
        /\ UNCHANGED << now, arg, apiCalls, simState, runnerVars >>

DiveFrame ==
    /\ ticks < MaxDiveTicks
    /\ FlyFrame(arg.gap)

DiveInit ==
    /\ RunnerIdle
    /\ now = 1000
    /\ op = "createSim"
    /\ emitted = << >>
    /\ ticks = 0
    /\ apiCalls = 0
    /\ simState = None
    /\ \E options \in DiveOptions, order \in DiveOrders :
          /\ arg = order
          /\ sim = Diving(options, order).r
          /\ simFrames = Diving(options, order).f

DiveNext == DiveFrame

DiveSpec == DiveInit /\ [][DiveNext]_vars

\* -------------------------------------------------------------- manoeuvres
\*
\* Bank and pitch under jumps of the controls and the targets: an engine in
\* flight at 140 kt or at 250 kt (where the coordinated turn asks for more
\* than 30 degrees of bank) is given frames every 100 ms; every JumpEvery
\* frames, when the attitude has had time to settle, the controls may be
\* thrown from one stop to the other or a target set on the far side.

TurnOptions == DiveOptions
TurnGap == maxDeltaTimeMs
TurnControls ==
    { Controls(None, Some(1000), Some(1000)), Controls(None, Some(-1000), Some(-1000)) }
TurnHeadings == { Exact(27000) }
TurnAltitudes == { 1000, 20000 }

\* The controls and targets change now.
Jump == ticks % JumpEvery = 0 /\ apiCalls < MaxCalls

JumpControls(controls) ==
    /\ Jump
    /\ SimCall(setControls(sim, controls), "setControls", controls)

JumpHeading(h) ==
    /\ Jump
    /\ SimCall(setHeading(sim, h), "setHeading", h)

JumpAltitude(a) ==
    /\ Jump
    /\ SimCall(setAltitude(sim, a), "setAltitude", a)

TurnFrame ==
    /\ ticks < MaxTurnTicks
    /\ FlyFrame(TurnGap)

TurnInit ==
    /\ RunnerIdle
    /\ now = 1000
    /\ op = "createSim"
    /\ arg = None
    /\ emitted = << >>
    /\ ticks = 0
    /\ apiCalls = 0
    /\ simState = None
    /\ \E options \in TurnOptions :
          /\ sim = InFlight(options, now).r
          /\ simFrames = InFlight(options, now).f

TurnNext ==
    \/ \E controls \in TurnControls : JumpControls(controls)
    \/ \E h \in TurnHeadings : JumpHeading(h)
    \/ \E a \in TurnAltitudes : JumpAltitude(a)
    \/ TurnFrame

TurnSpec == TurnInit /\ [][TurnNext]_vars

\* ------------------------------------------------------------------ holds
\*
\* The heading hold and the speed hold: engines in flight are given a
\* heading target and a speed target, which are left in place, and frames
\* for ever.  Neither axis reads x, y, the trail or the absolute time, so
\* the states are kept finite as in the climbs above.

HoldOptions == { SimOptions(9000, 0, 0, 140), SimOptions(35990, 0, 0, 140) }
\* Headings handed to setHeading: the reciprocal of east, west given as
\* -90, a tenth of a degree past north given as 720.1, 10 degrees, and
\* -1e-15.
HoldHeadings == { Exact(27000), Exact(-9000), Exact(72010), Exact(1000), JustBelow(0) }
\* Speeds handed to setSpeed (kt): within the envelope of 80..250 kt, and
\* on either side of it.
HoldSpeeds == { 200, 100, 30, 500 }
HoldGaps == {100}

HoldOrder(heading, speed) == [heading |-> heading, speed |-> speed]

\* The engine as Map.vue creates it, after its first frame, given the
\* targets.
Holding(options, order) ==
    LET s == InFlight(options, 1000)
    IN  [s EXCEPT !.r = setSpeed(setHeading(@, order.heading), order.speed)]

HoldInit ==
    /\ RunnerIdle
    /\ now = 1000
    /\ op = "setHeading"
    /\ emitted = << >>
    /\ ticks = 0
    /\ apiCalls = 0
    /\ simState = None
    /\ \E options \in HoldOptions, h \in HoldHeadings, v \in HoldSpeeds :
          /\ arg = HoldOrder(h, v)
          /\ sim = Holding(options, arg).r
          /\ simFrames = Holding(options, arg).f

HoldNext == \E gap \in HoldGaps : ClimbFrame(gap)

\* Frames keep being given, as in ClimbSpec.
HoldSpec == HoldInit /\ [][HoldNext]_vars /\ WF_ticks(FrameGiven)

\* ------------------------------------------------------- targets released
\*
\* Automation targets set and cleared again with no call of setControls:
\* the engine of EngineSpec is given targets by setHeading, setSpeed and
\* setAltitude, frames, and clearHeading, clearSpeed, clearAltitude or an
\* intent to resume own navigation.

ResumeIntent == Intent(None, None, None, None, None, Resume)

ReleaseInit ==
    /\ RunnerIdle
    /\ now = 1000
    /\ op = "createSim"
    /\ arg = None
    /\ emitted = << >>
    /\ ticks = 0
    /\ apiCalls = 0
    /\ simState = None
    /\ \E options \in EngineOptions :
          /\ sim = InFlight(options, now).r
          /\ simFrames = InFlight(options, now).f

ReleaseNext ==
    \/ \E v \in SpeedArgs : SetSpeed(v)
    \/ \E h \in HeadingArgs : SetHeading(h)
    \/ \E a \in AltitudeArgs : SetAltitude(a)
    \/ ClearSpeed
    \/ ClearHeading
    \/ ClearAltitude
    \/ ApplyIntent(ResumeIntent)
    \/ \E gap \in FrameGaps : SimFrame(gap)

ReleaseSpec == ReleaseInit /\ [][ReleaseNext]_vars

\* ------------------------------------------------------- stopped and started
\*
\* An engine manoeuvring under manual controls is stopped and started
\* again; between stop() and start() the wall clock may advance by a
\* little or by a lot.

PauseControls ==
    { Controls(Some(1000), Some(-1000), None), Controls(None, Some(500), Some(-1000)) }
\* Wall-clock time that passes while the engine is stopped (ms).
IdleSteps == {50, 3000}

Manoeuvring(options, controls) ==
    LET s == InFlight(options, 1000)
    IN  [s EXCEPT !.r = setControls(@, controls)]

\* Time passes after stop(); no callback is scheduled, none runs.
Idle(d) ==
    /\ op = "stop"
    /\ now + d <= MaxNow
    /\ now' = now + d
    /\ op' = "idle"
    /\ arg' = d
    /\ emitted' = << >>
    /\ UNCHANGED << sim, simFrames, ticks, apiCalls, simState, runnerVars >>

PauseFrame(gap) ==
    /\ ticks <= MaxTicks
    /\ RunUpdate(gap)

PauseInit ==
    /\ RunnerIdle
    /\ now = 1000
    /\ op = "setControls"
    /\ emitted = << >>
    /\ ticks = 0
    /\ apiCalls = 0
    /\ simState = None
    /\ \E options \in EngineOptions, controls \in PauseControls :
          /\ arg = controls
          /\ sim = Manoeuvring(options, controls).r
          /\ simFrames = Manoeuvring(options, controls).f

PauseNext ==
    \/ SimStop
    \/ SimStart
    \/ \E d \in IdleSteps : Idle(d)
    \/ \E gap \in FrameGaps : PauseFrame(gap)

PauseSpec == PauseInit /\ [][PauseNext]_vars

\* ------------------------------------------------------------ properties

Events == runner.events
EventIdx == 1..Len(runner.events)
Completed(ev) == ev.status = "completed"
Pending(ev) == ev.status = "pending"
DueAt(ev, elapsedMs) == ev.t * MsPerSecond <= elapsedMs

\* The event has a type-specific callback that was supplied.
HasCallback(ev) == ev.type \in KnownTypes /\ HookOf(ev.type) \in callbacks

\* The events of the scenario document, as written.
Written == ScenarioEvents(runner.activeScenario)
PosWritten(id) == CHOOSE k \in 1..Len(Written) : Written[k].id = id
\* Playback order: ascending t, equal t in the order written.
Precedes(a, b) ==
    \/ a.t < b.t
    \/ a.t = b.t /\ PosWritten(a.id) < PosWritten(b.id)

Restarts == {"reset", "loadScenario"}

\* C1: Between loads and resets, whatever start(), pause() and frame ticks
\* happen, the type-specific callback of an event is invoked at most once,
\* and a completed event never becomes pending again.
C1_DispatchedAtMostOnce ==
    [][ /\ \A i \in EventIds : dispatched'[i] <= 1
        /\ op' \notin Restarts =>
              \A k \in EventIdx :
                  Completed(runner.events[k]) =>
                      /\ k <= Len(runner'.events)
                      /\ Completed(runner'.events[k]) ]_vars

\* The events of scenario A due by its end were dispatched, some after a pause
\* and a resume.
C1_Witness ==
    /\ runner.activeScenario = ScenarioA
    /\ resumed
    /\ op = "tick"
    /\ Len(EventCalls(calls)) > 0
    /\ \A i \in 1..3 : dispatched[i] = 1

\* C2: The event callbacks invoked by a tick that computes elapsed time e are
\* those of the events still pending with t <= e (that have a callback), each
\* once, in ascending t with equal t in the order written; after the tick the
\* events with t <= e are completed and those with t > e are pending.
C2_TickDispatchesDueInOrder ==
    [][ (op' = "tick") =>
          LET e == runner'.elapsed
              ec == EventCalls(calls')
              due == {k \in EventIdx : /\ Pending(runner.events[k])
                                       /\ DueAt(runner.events[k], e)
                                       /\ HasCallback(runner.events[k])}
              EvOf(id) == runner.events[CHOOSE k \in EventIdx : runner.events[k].id = id]
          IN  /\ Len(ec) = Cardinality(due)
              /\ {ec[j].id : j \in 1..Len(ec)} = {runner.events[k].id : k \in due}
              /\ \A j \in 1..Len(ec) : ec[j].hook = HookOf(EvOf(ec[j].id).type)
              /\ \A i, j \in 1..Len(ec) :
                    i < j => Precedes(EvOf(ec[i].id), EvOf(ec[j].id))
              /\ Len(runner'.events) = Len(runner.events)
              /\ \A k \in EventIdx :
                    /\ runner'.events[k].id = runner.events[k].id
                    /\ Completed(runner'.events[k]) <=> DueAt(runner.events[k], e)
                    /\ Pending(runner'.events[k]) <=> ~DueAt(runner.events[k], e) ]_vars

\* Scenario A (events written at t = 2, 1, 2, 4): one tick at e = 3 s invoked
\* the callbacks of the events at t = 1, 2, 2, in that order, with the two
\* t = 2 events as written, and left the t = 4 event pending.
C2_Witness ==
    /\ runner.activeScenario = ScenarioA
    /\ op = "tick"
    /\ runner.elapsed = 3000
    /\ calls = << Call("onTick", 0, 3000, 3), Call("onAddTfr", 2, 0, 0),
                  Call("onAtc", 1, 0, 0), Call("onRemoveTfr", 3, 0, 0),
                  Call("onPause", 0, 0, 0), Call("onComplete", 0, 0, 0) >>
    /\ runner.currentEventIndex = 3

\* The index of the first pending event, or the number of events.
FirstPendingOrCount(evs) ==
    LET pend == {k \in 1..Len(evs) : Pending(evs[k])}
    IN  IF pend = {} THEN Len(evs)
        ELSE (CHOOSE k \in pend : \A j \in pend : k <= j) - 1

\* C3 as claimed: currentEventIndex is the index of the first pending event,
\* or the number of events if none is pending, also for a scenario without
\* events.
C3_Original ==
    (~runner.activeScenario.isNull) =>
        runner.currentEventIndex = FirstPendingOrCount(runner.events)

\* C3: With at least one event, currentEventIndex is the index of the first
\* pending event, or the number of events if none is pending.  With an empty
\* or missing event list, loadScenario and reset set it to -1 and it stays -1.
C3_CurrentEventIndex ==
    [][ /\ Len(runner'.events) > 0 =>
              runner'.currentEventIndex = FirstPendingOrCount(runner'.events)
        /\ ( /\ Len(runner'.events) = 0
             /\ (op' \in Restarts \/ runner.currentEventIndex = -1) ) =>
              runner'.currentEventIndex = -1 ]_vars

\* A tick ran on the scenario without events and left the index at -1.
C3_Witness ==
    /\ runner.activeScenario = ScenarioC
    /\ op = "tick"
    /\ runner.currentEventIndex = -1

\* What playback depends on and what getState() exposes.
Playback(r) ==
    [activeScenario |-> r.activeScenario, events |-> r.events, elapsed |-> r.elapsed,
     duration |-> r.duration, currentEventIndex |-> r.currentEventIndex,
     isRunning |-> r.isRunning, startTimestamp |-> r.startTimestamp,
     pauseOffsetMs |-> r.pauseOffsetMs, nextEventPointer |-> r.nextEventPointer]

\* C4: A runner that was reset and a newly created runner loaded with the
\* same scenario are in the same state, and stay in the same state and invoke
\* the same event callbacks under the same start(), pause() and ticks.
C4_ResetReplaysLikeLoad ==
    /\ Playback(runner) = Playback(fresh.r)
    /\ EventCalls(calls) = EventCalls(fresh.c)

\* Scenario A was reset and started again, and a tick dispatched events.
C4_Witness ==
    /\ fresh.via = "reset"
    /\ runner.activeScenario = ScenarioA
    /\ op = "tick"
    /\ Len(EventCalls(calls)) >= 2

\* C5: The elapsed time a tick computes is the wall-clock time the runner has
\* spent running since the load or reset; a start() leaves that time what the
\* pause() before it froze, and elapsed never decreases unless the runner is
\* loaded or reset.
C5_PausedTimeExcluded ==
    [][ /\ (op' = "tick") => runner'.elapsed = runMs
        /\ runner'.isRunning => now' - runner'.startTimestamp = runMs'
        /\ (~runner'.isRunning) => runner'.pauseOffsetMs = runMs'
        /\ op' \notin Restarts => runner'.elapsed >= runner.elapsed ]_vars

\* A tick after a resume: time passed while the clock was frozen, and the
\* tick's elapsed time is the frozen offset plus the time since the resume.
C5_Witness ==
    /\ resumed
    /\ op = "tick"
    /\ runner.isRunning
    /\ runner.pauseOffsetMs > 0
    /\ runner.elapsed > runner.pauseOffsetMs

\* max(90, maxEventTime + 30), maxEventTime the largest t, 0 without events.
ComputedDuration(evts) ==
    LET ts == {evts[k].t : k \in 1..Len(evts)} \cup {0}
        maxT == CHOOSE x \in ts : \A y \in ts : y <= x
    IN  IF maxT + 30 >= 90 THEN maxT + 30 ELSE 90

\* C6: loadScenario resolves the duration to scenario.durationSec when that
\* is given, otherwise to max(90, maxEventTime + 30), and passes it to onLoad.
C6_ResolvedDuration ==
    (op = "loadScenario" /\ ~runner.activeScenario.isNull) =>
        LET scn == runner.activeScenario
            want == IF scn.durationSec # None THEN scn.durationSec[1]
                    ELSE ComputedDuration(ScenarioEvents(scn))
        IN  /\ runner.duration = want
            /\ "onLoad" \in callbacks => calls = << Call("onLoad", 0, want, 0) >>

\* Events at t = 60 and t = 200 and no durationSec: 230.
C6_Witness ==
    /\ op = "loadScenario"
    /\ runner.activeScenario = ScenarioE
    /\ runner.duration = 230
    /\ calls = << Call("onLoad", 0, 230, 0) >>

\* C7 as claimed: once a tick has invoked onComplete, until reset() or
\* loadScenario() the runner stays not running and invokes no onStart, onTick,
\* onComplete or event callback.
C7_CompleteIsTerminal ==
    [][ (completed /\ op' \notin Restarts) =>
           /\ ~runner'.isRunning
           /\ \A j \in 1..Len(calls') :
                 /\ calls'[j].hook \notin {"onStart", "onTick", "onComplete"}
                 /\ ~IsEventCall(calls'[j]) ]_vars

\* C8: start() while running or with no scenario loaded, and pause() while not
\* running, change nothing in the runner, schedule no frame and invoke no
\* hook.
C8_NoOps ==
    [][ ( \/ op' = "start" /\ (runner.isRunning \/ runner.activeScenario.isNull)
          \/ op' = "pause" /\ ~runner.isRunning ) =>
           /\ runner' = runner
           /\ frames' = frames
           /\ calls' = << >>
           /\ ~error' ]_vars

\* start() was called on a running runner: onStart was not invoked.
C8_Witness ==
    /\ op = "start"
    /\ runner.isRunning
    /\ "onStart" \in callbacks
    /\ calls = << >>
    /\ runner.elapsed > 0

\* C9: After loadScenario(s) the events are those of s in ascending t with
\* equal t in the order written, event k has index k, all are pending, elapsed
\* and the dispatch pointer are 0, the runner is not running, and onLoad was
\* invoked once, with the duration.
C9_LoadedState ==
    (op = "loadScenario") =>
        /\ Len(runner.events) = Len(Written)
        /\ \A k \in 1..Len(Written) :
              \E j \in EventIdx :
                  /\ runner.events[j].id = Written[k].id
                  /\ runner.events[j].t = Written[k].t
                  /\ runner.events[j].type = Written[k].type
        /\ \A j, k \in EventIdx :
              j < k => Precedes(runner.events[j], runner.events[k])
        /\ \A k \in EventIdx :
              runner.events[k].index = k - 1 /\ Pending(runner.events[k])
        /\ runner.elapsed = 0
        /\ runner.nextEventPointer = 0
        /\ ~runner.isRunning
        /\ "onLoad" \in callbacks => calls = << Call("onLoad", 0, runner.duration, 0) >>

\* Scenario A was loaded while a frame of a running playback was scheduled.
C9_Witness ==
    /\ op = "loadScenario"
    /\ runner.activeScenario = ScenarioA
    /\ frames.cur
    /\ now > 0
    /\ [k \in 1..4 |-> runner.events[k].id] = << 2, 1, 3, 4 >>

\* C10: An event of unknown type, or whose hook was not supplied, invokes no
\* callback and raises no error; a tick still completes it when it is due and
\* moves the dispatch pointer past it, and the events behind it are dispatched
\* once each.
C10_UnknownTypeSkipped ==
    /\ ~error
    /\ \A k \in EventIdx :
          LET ev == runner.events[k]
          IN  /\ ~HasCallback(ev) => dispatched[ev.id] = 0
              /\ (op = "tick" /\ DueAt(ev, runner.elapsed)) =>
                     Completed(ev) /\ runner.nextEventPointer >= k
              /\ (HasCallback(ev) /\ Completed(ev)) => dispatched[ev.id] = 1

\* Scenario B without an onNote hook: the NOTE event and the event of unknown
\* type are completed without a callback, the event behind them was dispatched.
C10_Witness ==
    /\ runner.activeScenario = ScenarioB
    /\ "onNote" \notin callbacks
    /\ op = "tick"
    /\ \A k \in EventIdx : Completed(runner.events[k])
    /\ dispatched = [i \in EventIds |-> IF i = 3 THEN 1 ELSE 0]
    /\ calls = << Call("onTick", 0, runner.elapsed, 90), Call("onRemoveTraffic", 3, 0, 0) >>
\* ----------------------------------------------------- engine properties

InEnvelope(speed) == minSpeedMps <= speed /\ speed <= maxSpeedMps
\* A heading in [0, 360).
IsHeading(deg) == 0 <= deg /\ deg < 36000

\* C11: after every frame with a valid deltaTime the speed lies within
\* [minSpeedMps, maxSpeedMps], whatever the manual speed input, the speed
\* target (a target snapped onto included) and the speed before.
C11_SpeedWithinEnvelope == (op = "update") => InEnvelope(sim.speedMps)

\* A frame has snapped the speed onto a target of 40 kt, below the envelope,
\* and left the speed at the envelope's lower end.
C11_Witness ==
    /\ op = "update"
    /\ sim.targetSpeedKt = Some(minTargetSpeedKt)
    /\ sim.speedInput = 0
    /\ sim.speedMps = minSpeedMps

\* C12: started from a heading in [0, 360), the heading is in [0, 360) in
\* every reachable state, and so is every heading target setHeading stores.
C12_HeadingInRange ==
    /\ IsHeading(sim.headingDeg)
    /\ sim.targetHeadingDeg # None => IsHeading(sim.targetHeadingDeg[1])

\* What setControls does with one axis: value is the axis' entry of the
\* argument, input and target the axis' fields before and after.
AxisControlled(value, inputAfter, targetBefore, targetAfter) ==
    /\ value # None /\ value[1] # 0 =>
          /\ targetAfter = None
          /\ inputAfter = Clamp(-1000, 1000, value[1])
    /\ value = None \/ value[1] = 0 => targetAfter = targetBefore

\* C13: setControls with a nonzero value for an axis clears that axis'
\* target at once and stores the value clamped to [-1, 1]; a value of 0 or
\* an omitted axis leaves that axis' target as it was; the vertical speed
\* limit is never touched.
C13_SetControls ==
    [][op' = "setControls" =>
          /\ AxisControlled(arg'.speed, sim'.speedInput,
                            sim.targetSpeedKt, sim'.targetSpeedKt)
          /\ AxisControlled(arg'.turn, sim'.turnInput,
                            sim.targetHeadingDeg, sim'.targetHeadingDeg)
          /\ AxisControlled(arg'.pitch, sim'.pitchInput,
                            sim.targetAltitudeFt, sim'.targetAltitudeFt)
          /\ sim'.verticalSpeedLimitFpm = sim.verticalSpeedLimitFpm]_vars

\* In flight with speed and heading targets, setControls({turn: -2.5}) has
\* cleared the heading target, stored -1 and kept the speed target.
C13_Witness ==
    /\ op = "setControls"
    /\ arg = Controls(None, Some(-2500), None)
    /\ sim.isRunning
    /\ apiCalls = 1
    /\ sim.targetHeadingDeg = None
    /\ sim.turnInput = -1000
    /\ sim.targetSpeedKt # None

\* The step is a frame.
IsFrame == ticks' = ticks + 1

\* C16: a frame whose deltaTime is not in (0, 0.1 s], the first frame after
\* start() included, changes nothing but lastTimestamp and the scheduled
\* callback and hands nothing to onUpdate; the next frame with a valid
\* deltaTime integrates over the time since that timestamp.
C16_SkippedFrame ==
    [][/\ op' = "skip" =>
             /\ sim' = [sim EXCEPT !.lastTimestamp = Some(now'), !.animationFrameId = TRUE]
             /\ emitted' = << >>
             /\ simFrames' = [simFrames EXCEPT !.cur = TRUE]
       /\ op = "skip" /\ IsFrame /\ arg' <= maxDeltaTimeMs =>
             /\ op' = "update"
             /\ sim' = [Integrate([sim EXCEPT !.lastTimestamp = Some(now')], now' - now, now')
                           EXCEPT !.animationFrameId = TRUE]
             /\ emitted' = << Update(sim') >>]_vars

\* A frame 150 ms after the last one was skipped, and the frame 100 ms
\* later has integrated.
C16_Witness ==
    /\ op = "update"
    /\ ticks = 2
    /\ now = 1250
    /\ sim.lastTimestamp = Some(1250)
    /\ Len(sim.positionHistory) = 2

\* C17: setSpeed, setHeading, setAltitude and setVerticalSpeedLimit accept
\* every number: the target is then non-null and in its range (40..400 kt,
\* [0, 360) degrees, -1000..60000 ft, 0..4000 fpm with a negative limit
\* taken by its absolute value), and no other field changes.
C17_SettersStoreInRange ==
    [][/\ op' = "setSpeed" =>
             /\ sim'.targetSpeedKt # None
             /\ sim'.targetSpeedKt[1] \in minTargetSpeedKt..maxTargetSpeedKt
             /\ sim' = [sim EXCEPT !.targetSpeedKt = sim'.targetSpeedKt]
       /\ op' = "setHeading" =>
             /\ sim'.targetHeadingDeg # None
             /\ IsHeading(sim'.targetHeadingDeg[1])
             /\ sim' = [sim EXCEPT !.targetHeadingDeg = sim'.targetHeadingDeg]
       /\ op' = "setAltitude" =>
             /\ sim'.targetAltitudeFt # None
             /\ sim'.targetAltitudeFt[1] \in minTargetAltitudeFt..maxTargetAltitudeFt
             /\ sim' = [sim EXCEPT !.targetAltitudeFt = sim'.targetAltitudeFt]
       /\ op' = "setVerticalSpeedLimit" /\ arg' # None =>
             /\ sim'.verticalSpeedLimitFpm # None
             /\ sim'.verticalSpeedLimitFpm[1] = Min(Abs(arg'[1]), maxVerticalSpeedLimitFpm)
             /\ sim' = [sim EXCEPT !.verticalSpeedLimitFpm = sim'.verticalSpeedLimitFpm]]_vars

\* C18: start() on a running engine changes nothing (no second callback,
\* no sample, lastTimestamp kept), stop() on a stopped engine changes
\* nothing, and reset() after reset() changes nothing.
C18_Idempotent ==
    [][/\ op' = "start" /\ sim.isRunning =>
             sim' = sim /\ simFrames' = simFrames /\ emitted' = << >>
       /\ op' = "stop" /\ ~sim.isRunning =>
             sim' = sim /\ simFrames' = simFrames /\ emitted' = << >>
       /\ op' = "reset" =>
             simReset(Step(sim', simFrames')) = Step(sim', simFrames')]_vars

\* start() was called on an engine in flight: lastTimestamp, which a start
\* that took effect would have cleared, is still there.
C18_Witness ==
    /\ op = "start"
    /\ sim.isRunning
    /\ sim.lastTimestamp # None
    /\ simFrames = [cur |-> TRUE, stale |-> 0]
    /\ Len(sim.positionHistory) = 1

\* ------------------------------------------------------ intent properties

IsApply == op' = "applyIntentToSim"

\* C19 as stated: after applyIntentToSim with a resumeOwnNavigation intent
\* the heading, altitude and speed targets are all cleared, whatever other
\* fields the intent carries.
C19_Original ==
    [][IsApply /\ IsResume(arg') =>
          /\ sim'.targetHeadingDeg = None
          /\ sim'.targetAltitudeFt = None
          /\ sim'.targetSpeedKt = None]_vars

\* C19: after applyIntentToSim with a resumeOwnNavigation intent, each of
\* the heading, altitude and speed targets is cleared unless the intent
\* names a value for it, which is then set: the heading target from
\* targetTrackDeg, else targetHeadingDeg; the altitude target from
\* targetAltitudeFt, else with verticalMode level from the shown altitude
\* (kept as it was when no altitude is shown); the speed target from
\* targetSpeedKt.
C19_ResumeClearsUnnamed ==
    [][IsApply /\ IsResume(arg') =>
          /\ sim'.targetHeadingDeg =
                IF arg'.targetTrackDeg # None
                THEN setHeading(sim, arg'.targetTrackDeg[1]).targetHeadingDeg
                ELSE IF arg'.targetHeadingDeg # None
                THEN setHeading(sim, arg'.targetHeadingDeg[1]).targetHeadingDeg
                ELSE None
          /\ sim'.targetAltitudeFt =
                IF arg'.targetAltitudeFt # None
                THEN setAltitude(sim, arg'.targetAltitudeFt[1]).targetAltitudeFt
                ELSE IF arg'.verticalMode = Some("level")
                THEN (IF KnowsAltitude(simState)
                      THEN setAltitude(sim, simState[1].altitudeFt[1]).targetAltitudeFt
                      ELSE sim.targetAltitudeFt)
                ELSE None
          /\ sim'.targetSpeedKt =
                IF arg'.targetSpeedKt # None
                THEN setSpeed(sim, arg'.targetSpeedKt[1]).targetSpeedKt
                ELSE None]_vars

\* In flight with all four targets, a bare resumeOwnNavigation intent has
\* cleared heading, altitude and speed targets.
C19_Witness ==
    /\ op = "applyIntentToSim"
    /\ arg = Intent(None, None, None, None, None, Resume)
    /\ apiCalls = 1
    /\ sim.isRunning
    /\ sim.verticalSpeedLimitFpm = Some(500)
    /\ sim.targetHeadingDeg = None
    /\ sim.targetAltitudeFt = None
    /\ sim.targetSpeedKt = None

\* The intent names no heading, altitude, speed.
NoHeading(intent) == intent.targetHeadingDeg = None /\ intent.targetTrackDeg = None
NoAltitude(intent) == intent.targetAltitudeFt = None
NoSpeed(intent) == intent.targetSpeedKt = None

\* C20 as stated: applyIntentToSim with an intent that is not
\* resumeOwnNavigation leaves every target (heading, altitude, speed,
\* vertical speed limit) whose field the intent lacks as it was.
C20_Original ==
    [][IsApply /\ ~arg'.isNull /\ ~IsResume(arg') =>
          /\ NoHeading(arg') => sim'.targetHeadingDeg = sim.targetHeadingDeg
          /\ NoAltitude(arg') => sim'.targetAltitudeFt = sim.targetAltitudeFt
          /\ NoSpeed(arg') => sim'.targetSpeedKt = sim.targetSpeedKt
          /\ sim'.verticalSpeedLimitFpm = sim.verticalSpeedLimitFpm]_vars

\* The intent asks to level off and the shared sim state shows an altitude.
LevelsOff(intent) == intent.verticalMode = Some("level") /\ KnowsAltitude(simState)

\* C20: applyIntentToSim with an intent that is not resumeOwnNavigation
\* leaves every target whose field the intent lacks as it was, except that
\* verticalMode level without targetAltitudeFt sets the altitude target to
\* the shown altitude when one is shown; the vertical speed limit is never
\* changed, and a null intent changes nothing.
C20_AbsentFieldsKept ==
    [][/\ IsApply /\ ~arg'.isNull /\ ~IsResume(arg') =>
             /\ NoHeading(arg') => sim'.targetHeadingDeg = sim.targetHeadingDeg
             /\ NoAltitude(arg') /\ ~LevelsOff(arg') =>
                   sim'.targetAltitudeFt = sim.targetAltitudeFt
             /\ NoAltitude(arg') /\ LevelsOff(arg') =>
                   sim'.targetAltitudeFt =
                       setAltitude(sim, simState[1].altitudeFt[1]).targetAltitudeFt
             /\ NoSpeed(arg') => sim'.targetSpeedKt = sim.targetSpeedKt
             /\ sim'.verticalSpeedLimitFpm = sim.verticalSpeedLimitFpm
       /\ IsApply /\ arg'.isNull => sim' = sim]_vars

\* In flight with all four targets, an intent naming only a heading has
\* set the heading target and left the other three.
C20_Witness ==
    /\ op = "applyIntentToSim"
    /\ arg = Intent(Some(Exact(27000)), None, None, None, None, None)
    /\ apiCalls = 1
    /\ sim.targetHeadingDeg = Some(27000)
    /\ sim.targetAltitudeFt = Some(3300)
    /\ sim.targetSpeedKt = Some(80)
    /\ sim.verticalSpeedLimitFpm = Some(500)

\* ------------------------------------------------------- trail properties

\* The distance between two samples as line 419 computes a segment:
\* sqrt(dx^2 + dy^2).
SegmentDistance(from, to) ==
    LET dx == to.x - from.x
        dy == to.y - from.y
    IN  sqrt(dx * dx + dy * dy)

Newest(history) == history[Len(history)]

\* Every sample records the sum of the segment distances up to it (see
\* SegmentsSummed below), so the sum between the oldest and the newest
\* retained sample is the difference of what the two record.
PathLength(history) ==
    IF Len(history) = 0 THEN 0
    ELSE Newest(history).cumulativeDistance - history[1].cumulativeDistance

\* after holds the youngest samples of before, in order, followed by at
\* most one new sample.
OldestDropped(before, after) ==
    \E k \in {Len(before) - Len(after), Len(before) - Len(after) + 1} :
        /\ 0 <= k /\ k <= Len(before)
        /\ SubSeq(after, 1, Len(before) - k) = SubSeq(before, k + 1, Len(before))

\* A sample added to a history records the segment distance from the
\* sample before it on top of what that one records.
SegmentsSummed(before, after) ==
    Len(before) > 0 /\ Len(after) > 0 /\ Newest(after) # Newest(before) =>
        Newest(after).cumulativeDistance =
            Newest(before).cumulativeDistance + SegmentDistance(Newest(before), Newest(after))

\* C15: once started, the position history holds at least one sample; the
\* sum of the segment distances between consecutive retained samples is at
\* most maxTrailDistanceM (5000 m); a frame removes only the oldest samples.
C15_TrailBounded ==
    /\ [](/\ sim.isRunning => Len(sim.positionHistory) >= 1
          /\ PathLength(sim.positionHistory) <= maxTrailDistanceM)
    /\ [][IsFrame =>
             /\ OldestDropped(sim.positionHistory, sim'.positionHistory)
             /\ SegmentsSummed(sim.positionHistory, sim'.positionHistory)]_vars

\* The flight is longer than maxTrailDistanceM and the sample taken at
\* start() is no longer in the history.
C15_Witness ==
    /\ op = "update"
    /\ sim.cumulativeDistance > maxTrailDistanceM
    /\ Len(sim.positionHistory) >= 2
    /\ sim.positionHistory[1].cumulativeDistance > 0

\* ------------------------------------------------------- climb properties

\* The altitude above sea level: the origin's plus z.
AbsoluteAltitude(r) == r.currentOriginAltitudeMeters + r.z

\* The engine is within ALTITUDE_TOLERANCE_M of the target it was given.
Arrived == Abs(AbsoluteAltitude(sim) - FtToM(arg)) <= ALTITUDE_TOLERANCE_M

\* C14: for every altitude target setAltitude accepts and every origin
\* altitude, with or without a vertical speed limit, if the target is left
\* in place and frames keep coming, the altitude is eventually within 10 m
\* of the target, and from then on getTargets() reports no altitude target.
C14_AltitudeConverges ==
    /\ <>Arrived
    /\ <>[](getTargets(sim).altitudeFt = None)

\* ------------------------------------------------- the runner's last tick

\* Frame callbacks of the runner the browser still holds.
PendingFrames(f) == (IF f.cur THEN 1 ELSE 0) + f.stale

\* The tick of this step found the scenario's duration elapsed.
Completes == runner'.elapsed >= runner'.duration * MsPerSecond

\* C24: the tick that first computes elapsed >= duration invokes
\* onTick(elapsed, duration), then the callbacks of the due events, then
\* stops the runner (onPause), then invokes onComplete once, and schedules
\* no frame; a tick with elapsed < duration schedules exactly one frame and
\* does not invoke onComplete.
C24_CompletionOrder ==
    [][op' = "tick" =>
          /\ calls'[1] = Call("onTick", 0, runner'.elapsed, runner.duration)
          /\ Completes =>
                /\ Len(calls') >= 3
                /\ calls'[Len(calls')].hook = "onComplete"
                /\ calls'[Len(calls') - 1].hook = "onPause"
                /\ \A k \in 2..(Len(calls') - 2) : IsEventCall(calls'[k])
                /\ ~runner'.isRunning
                /\ ~runner'.rafId
                /\ PendingFrames(frames') <= PendingFrames(frames) - 1
          /\ ~Completes =>
                /\ \A k \in 2..Len(calls') : IsEventCall(calls'[k])
                /\ runner'.isRunning
                /\ frames'.cur
                /\ PendingFrames(frames') = PendingFrames(frames)]_vars

\* A tick has completed the scenario after dispatching two events.
C24_Witness ==
    /\ op = "tick"
    /\ ~runner.isRunning
    /\ Len(calls) = 5
    /\ calls[5].hook = "onComplete"
    /\ calls[2].id # 0

\* C28: at most one frame callback of the runner is pending at any time,
\* whatever the order of loadScenario, start, pause, reset and frames.
C28_OneFramePending == PendingFrames(frames) <= 1

\* The tick of this step invoked onComplete.
InvokesComplete ==
    /\ op' = "tick"
    /\ \E k \in 1..Len(calls') : calls'[k].hook = "onComplete"

\* C26: when onComplete is invoked, every event with t <= duration is
\* completed; when the scenario has no durationSec of its own (the duration
\* is computed from the events), every event is completed.
C26_NothingLeftPending ==
    [][InvokesComplete =>
          /\ \A k \in 1..Len(runner'.events) :
                 runner'.events[k].t <= runner'.duration => Completed(runner'.events[k])
          /\ runner'.activeScenario.durationSec = None =>
                 \A k \in 1..Len(runner'.events) : Completed(runner'.events[k])]_vars

\* The scenario with events at 60 s and 200 s and the computed duration of
\* 230 s has completed in a tick that dispatched both events.
C26_Witness ==
    /\ op = "tick"
    /\ runner.activeScenario = ScenarioE
    /\ runner.duration = 230
    /\ Len(calls) = 5
    /\ calls[5].hook = "onComplete"
    /\ \A k \in 1..Len(Events) : Completed(Events[k])

\* ------------------------------------------------ properties of the dives

\* z is kept above this.
Floor(r) == r.options.initialAltitudeMeters - floorDepthM

\* C21: after every valid tick z is at least the initial altitude less
\* 1000 m, whatever the pitch input, the altitude target (one below the
\* floor and the tick that snaps onto the target included) and the
\* vertical speed limit.
C21_AboveFloor == sim.z >= Floor(sim)

\* The engine was ordered to a target less than 10 m below the floor, has
\* snapped onto it, and is on the floor.
C21_Witness ==
    /\ op = "update"
    /\ arg.target = Some(3270)
    /\ FtToM(3270) - sim.currentOriginAltitudeMeters < Floor(sim)
    /\ sim.targetAltitudeFt = None
    /\ sim.z = Floor(sim)

\* The step is a valid tick of deltaTime arg.gap.
ValidTick == op' = "update"

\* The most z may rise and fall in a tick of deltaTime ms.
MaxRise(r, deltaTime) ==
    LET byRate == Rnd(maxClimbRateMps * deltaTime, 1000)
        byLimit == Rnd(FpmToMps(r.verticalSpeedLimitFpm[1]) * deltaTime, 1000)
    IN  IF r.verticalSpeedLimitFpm # None THEN Min(byRate, byLimit) ELSE byRate
MaxFall(r, deltaTime) ==
    LET byRate == Rnd(maxDescentRateMps * deltaTime, 1000)
        byLimit == Rnd(FpmToMps(r.verticalSpeedLimitFpm[1]) * deltaTime, 1000)
    IN  IF r.verticalSpeedLimitFpm # None THEN Min(byRate, byLimit) ELSE byRate

\* The tick of this step snapped z onto the altitude target.
Snaps == sim.targetAltitudeFt # None /\ sim'.targetAltitudeFt = None

\* C30 as stated: across every valid tick the altitude rises by at most
\* maxClimbRate * dt and falls by at most maxDescentRate * dt, and by at
\* most L * dt either way under a vertical speed limit L, the tick in
\* which the target is reached included.
C30_Original ==
    [][ValidTick =>
          /\ sim'.z - sim.z <= MaxRise(sim, arg.gap)
          /\ sim.z - sim'.z <= MaxFall(sim, arg.gap)]_vars

\* C30: across every valid tick but the one that snaps onto the altitude
\* target the altitude rises by at most maxClimbRate * dt and falls by at
\* most maxDescentRate * dt, and by at most L * dt either way under a
\* vertical speed limit L; the tick that snaps moves the altitude by up to
\* ALTITUDE_TOLERANCE_M more.
C30_VerticalRateBounded ==
    [][ValidTick =>
          /\ ~Snaps =>
                /\ sim'.z - sim.z <= MaxRise(sim, arg.gap)
                /\ sim.z - sim'.z <= MaxFall(sim, arg.gap)
          /\ Snaps =>
                /\ sim'.z - sim.z <= MaxRise(sim, arg.gap) + ALTITUDE_TOLERANCE_M
                /\ sim.z - sim'.z <= MaxFall(sim, arg.gap) + ALTITUDE_TOLERANCE_M]_vars

\* A descent by manual pitch under a limit of 500 fpm is at the pitch
\* limit: speed * sin(pitch) is seven times the limit.
C30_Witness ==
    /\ op = "update"
    /\ arg.limit = Some(500)
    /\ arg.pitch = Some(-1000)
    /\ sim.pitchAngleDeg = -maxPitchAngleDeg
    /\ sim.z < sim.options.initialAltitudeMeters

\* ------------------------------------------- properties of the manoeuvres

\* C22: after every valid tick the bank angle is within 30 degrees and the
\* pitch angle within maxPitchAngleDeg of level; across a valid tick of
\* step dt the bank angle changes by at most bankAngleSmoothingRate * dt
\* and the pitch angle by at most pitchAngleSmoothingRate * dt, whatever
\* the jump in turn input, pitch input or targets.
C22_AttitudeBounded ==
    /\ [](/\ Abs(sim.bankAngleDeg) <= maxBankAngleDeg
          /\ Abs(sim.pitchAngleDeg) <= maxPitchAngleDeg)
    /\ [][ValidTick =>
             /\ Abs(sim'.bankAngleDeg - sim.bankAngleDeg)
                    <= Rnd(bankAngleSmoothingRate * TurnGap, 1000)
             /\ Abs(sim'.pitchAngleDeg - sim.pitchAngleDeg)
                    <= Rnd(pitchAngleSmoothingRate * TurnGap, 1000)]_vars

\* After the controls were thrown over twice, the bank is at its limit on
\* one side and the pitch at its limit.
C22_Witness ==
    /\ op = "update"
    /\ apiCalls = 2
    /\ ticks > 2 * JumpEvery
    /\ sim.turnInput = 1000
    /\ sim.bankAngleDeg = maxBankAngleDeg
    /\ sim.pitchAngleDeg = maxPitchAngleDeg

\* ------------------------------------------------- properties of the holds

\* The wrapped difference between the heading target and the heading.
HeadingError(r) == normalizeHeadingDiff(r.targetHeadingDeg[1] - r.headingDeg)

\* The heading is on the target and held there.
OnHeading ==
    /\ sim.headingDeg = sim.targetHeadingDeg[1]
    /\ sim.turnInput = 0

\* C23: with a heading target set and left in place, each valid tick turns
\* along the shorter arc (the wrapped error neither grows nor changes
\* sign), the heading eventually equals the target exactly and stays equal
\* with turn input 0 on every later tick, and the target is still reported
\* as set.
C23_HeadingConverges ==
    /\ [](getTargets(sim).headingDeg = Some(normalizeHeading(arg.heading)))
    /\ [][ValidTick =>
             /\ Abs(HeadingError(sim')) <= Abs(HeadingError(sim))
             /\ Sign(HeadingError(sim')) \in {Sign(HeadingError(sim)), 0}]_vars
    /\ <>[]OnHeading

\* The speed is on the target and held there.
OnSpeed ==
    /\ sim.speedMps = KtToMps(sim.targetSpeedKt[1])
    /\ sim.speedInput = 0

\* C25: with a speed target set by setSpeed(v) and left in place, the
\* speed eventually equals the stored target exactly and stays equal with
\* speed input 0 on every later tick, and the target is still reported as
\* set.
C25_SpeedConverges ==
    /\ [](getTargets(sim).speedKt =
              Some(Clamp(minTargetSpeedKt, maxTargetSpeedKt, arg.speed)))
    /\ <>[]OnSpeed

\* ------------------------------------------------------- released targets

\* No automation command is left on an axis without a target.
NoResidualInput ==
    /\ sim.targetHeadingDeg = None => sim.turnInput = 0
    /\ sim.targetSpeedKt = None => sim.speedInput = 0
    /\ sim.targetAltitudeFt = None => sim.pitchInput = 0

\* C27: with the manual inputs 0 and no call of setControls, after a
\* target is cleared (clearHeading, clearSpeed, clearAltitude, or an intent
\* to resume own navigation) the input of its axis is 0 in the ticks that
\* follow: the heading and the speed (once within its envelope) stop
\* changing and the pitch returns toward level.
C27_NoResidualCommand ==
    /\ []NoResidualInput
    /\ [][ValidTick =>
             /\ sim.targetHeadingDeg = None => sim'.headingDeg = sim.headingDeg
             /\ sim.targetSpeedKt = None /\ InEnvelope(sim.speedMps) =>
                    sim'.speedMps = sim.speedMps
             /\ sim.targetAltitudeFt = None =>
                    Abs(sim'.pitchAngleDeg) <= Abs(sim.pitchAngleDeg)]_vars

\* ---------------------------------------------------- stopped and started

\* What the engine keeps of a flight: everything but the frame clock.
Flight(r) == [r EXCEPT !.lastTimestamp = None, !.animationFrameId = FALSE, !.isRunning = FALSE]

\* getState() (lines 545-555).
getState(r) ==
    [x |-> r.x, y |-> r.y, z |-> r.z, headingDeg |-> r.headingDeg,
     bankAngleDeg |-> r.bankAngleDeg, pitchAngleDeg |-> r.pitchAngleDeg,
     speedMps |-> r.speedMps]

\* C29: time spent stopped is never integrated.  From stop() to the next
\* start() the flight (position, heading, speed, attitude, targets, inputs,
\* history) does not change, whatever time passes; the first frame after
\* start() changes nothing of it and hands nothing to onUpdate; and the
\* frame after that, when valid, leaves the state (getState()) that
\* integrating the flight as it was at stop() over that frame's own
\* deltaTime gives.
C29_StoppedTimeNotIntegrated ==
    [][/\ ~sim.isRunning /\ op' \in {"stop", "idle", "start"} =>
             Flight(sim') = Flight(sim)
       /\ sim.isRunning /\ sim.lastTimestamp = None /\ IsFrame =>
             /\ Flight(sim') = Flight(sim)
             /\ emitted' = << >>
       /\ op = "skip" /\ IsFrame /\ arg' <= maxDeltaTimeMs =>
             /\ getState(sim') = getState(Integrate(sim, arg', now'))
             /\ emitted' = << Update(sim') >>]_vars

\* The engine flew one frame, was stopped for 3 s and started again; its
\* first frame was skipped and the second has integrated 100 ms.
C29_Witness ==
    /\ op = "update"
    /\ arg = 100
    /\ apiCalls = 2
    /\ ticks = 3
    /\ now >= 4000
    /\ Len(sim.positionHistory) = 3

====
